---- MODULE Spec2Model ----
(***************************************************************************)
(* Budget Advisory System: the transaction / budget consistency core.      *)
(*                                                                         *)
(* The store (MySQL tables accounts, categories + income_categories +     *)
(* expense_categories, budgets, transactions) and the in-memory caches of  *)
(* AccountsManager and BudgetManager are the state.  Every menu operation  *)
(* is one action; the console inputs it reads are its parameters.          *)
(*                                                                         *)
(* Modelling conventions                                                   *)
(*  - amounts are integers (one unit = one cent); NULL / None is 0 for ids *)
(*    and "" for names;                                                    *)
(*  - account names are drawn from lower-case names none of which is a     *)
(*    prefix of another, so lower()/casefold() leave them as they are and  *)
(*    a LIKE 'prefix%' match is a match of the prefix kind and the name;   *)
(*    category names may start with a capital, which lower() folds;        *)
(*  - notes are [kind, name, text]: kind "to"/"from" is the prefix         *)
(*    "Transfer to <name>: " / "Transfer from <name>: ", followed by text; *)
(*    kind "plain" is a note without such a prefix;                        *)
(*  - a date is "cur" (in the current calendar month) or "old" (before    *)
(*    it);                                                                 *)
(*  - every Database.execute succeeds, but in the specification           *)
(*    SpecFailure, where a write can fail;                                 *)
(*  - CategoryManager's and TransactionsManager's caches are reloaded by   *)
(*    every operation that changes or reads them, so they are read off     *)
(*    the stored rows; AccountsManager.accounts and BudgetManager.budgets  *)
(*    are not, and are variables.                                          *)
(*  - fields named g_* and the variables opening and last are history      *)
(*    (ghost) state: no operation reads them.                              *)
(***************************************************************************)
EXTENDS Integers, Sequences, FiniteSets, TLC

VARIABLES
    db_accounts,        \* accounts table: account_id -> [account_name, initial_balance]
    db_categories,      \* categories table joined with the two role tables:
                        \*   category_id -> [category_name, role]
    db_budgets,         \* budgets table: budget_id -> [category_id, monthly_limit, spent]
    db_transactions,    \* transactions table: transaction_id -> row
    accounts,           \* AccountsManager.accounts (cache of the accounts table)
    budgets,            \* BudgetManager.budgets (cache: category_id -> budget row)
    next_id,            \* AUTO_INCREMENT counters of the four tables
    opening,            \* ghost: account_id -> balance the account was created with
    last                \* ghost: the operation that ran last and what it did

vars == <<db_accounts, db_categories, db_budgets, db_transactions,
          accounts, budgets, next_id, opening, last>>

db == <<db_accounts, db_categories, db_budgets, db_transactions>>

(***************************************************************************)
(* Bounds of the model and input domains.                                  *)
(***************************************************************************)
MaxAccounts == 2
MaxBudgets == 1
MaxTransactions == 2
MaxLedgerTransactions == 3
MaxTransferRows == 4
MaxAccountRows == 3

AccountNames == {"x", "y"}
TransferAccountNames == {"x", "y", "z"}
CategoryNames == {"food", "pay"}
Amounts == {1, 2}
TransferAmounts == {-1, 0, 1, 2}
Balances == {0, 2}
Limits == {2}
Texts == {"", "n"}

MaxCreateRows == 2
MaxFundsRows == 3
MaxCategories == 3
MaxCategoryBudgets == 2
MaxCategoryRows == 1

CreateTypes == {"income", "expense", "bogus"}
CreateAccountNames == {"x", "w"}
CreateAmounts == {0, 1, 2}
FundsAmounts == {-1, 0, 1, 2, 3}
NewCategoryNames == {"Food", "rent"}
CategoryTypes == {"expense", "bogus"}
Collations == {"ci", "cs"}

MaxBudgetRows == 1
MaxBudgetTransactions == 2

BudgetCategoryNames == {"food", "rent"}
NewLimits == {1}

MaxScenarioRows == 3

ScenarioAmounts == {60, 80}

MaxUpdateRows == 2
MaxUpdateBudgets == 2

EnteredAmounts == {0, 1, 2}
UpdateCategoryNames == {"", "food", "rent", "none"}

MaxFailureRows == 3

MaxDatesRows == 3
MaxDatesBudgets == 2
Dates == {"cur", "old"}

MaxFrameRows == 3

MaxCascadeRows == 3

MaxPartiesRows == 4
Choices == {1, 2}

NoNotes == [kind |-> "plain", name |-> "", text |-> ""]
PlainNotes(text) == [kind |-> "plain", name |-> "", text |-> text]

(***************************************************************************)
(* Small helpers on tables (functions from ids to rows).                   *)
(***************************************************************************)
Empty == [i \in {} |-> 0]

Put(table, id, row) == [i \in DOMAIN table \cup {id} |-> IF i = id THEN row ELSE table[i]]

Drop(table, ids) == [i \in DOMAIN table \ ids |-> table[i]]

MaxOf(S) == CHOOSE m \in S : \A n \in S : n <= m

MinOf(S) == CHOOSE m \in S : \A n \in S : m <= n

RECURSIVE Ascending(_)
Ascending(S) == IF S = {} THEN <<>> ELSE <<MinOf(S)>> \o Ascending(S \ {MinOf(S)})

RECURSIVE SumOver(_, _)
SumOver(S, f) == IF S = {} THEN 0
                 ELSE LET i == CHOOSE j \in S : TRUE IN f[i] + SumOver(S \ {i}, f)

(***************************************************************************)
(* The ghost record of the last operation that changed the state.  Its     *)
(* field log says whether the refusals of the operations that create       *)
(* something (and what was typed at their prompts, the field inputs) are   *)
(* recorded too; it is set by the initial state and never changes.  With   *)
(* log off a refused operation changes nothing, the record included.       *)
(* The fields failed and written are the store writes of the operation     *)
(* (numbered in the order the code issues them) that failed and that were  *)
(* applied, in the specification where writes can fail.                    *)
(***************************************************************************)
\* What was typed at the prompts of an operation (txn: the row selected for
\* an update or a deletion; notes, confirm: the notes and the confirmations
\* typed, where the operation asks for them).
Input(type, name, choice, other, other_choice, category, amount) ==
    [type |-> type, name |-> name, choice |-> choice, other |-> other,
     other_choice |-> other_choice, category |-> category, amount |-> amount,
     txn |-> 0, notes |-> "", confirm |-> ""]

NoInput == Input("", "", 0, "", 0, "", 0)

Logged(inputs) == IF last.log THEN inputs ELSE NoInput

Did(op, ok, acct, other, cat, txn, amt, alert) ==
    [op |-> op, ok |-> ok, acct |-> acct, other |-> other, cat |-> cat,
     txn |-> txn, amt |-> amt, alert |-> alert, type |-> "", bal |-> 0, spent |-> 0,
     redo |-> FALSE, budget |-> 0, log |-> last.log, inputs |-> NoInput,
     failed |-> {}, written |-> {}]

\* The same, for an operation on an Income or Expense row: with the row's
\* type, and the account's balance and the category's spent before it ran.
DidOn(op, acct, cat, txn, amt, alert, type, bal, spent) ==
    [op |-> op, ok |-> TRUE, acct |-> acct, other |-> 0, cat |-> cat,
     txn |-> txn, amt |-> amt, alert |-> alert, type |-> type, bal |-> bal, spent |-> spent,
     redo |-> FALSE, budget |-> 0, log |-> last.log, inputs |-> NoInput,
     failed |-> {}, written |-> {}]

\* An income / expense that creates again the row the operation before deleted:
\* the same account, category, type and amount.
Recreates(acct, cat, type, amt) ==
    /\ last.op = "delete_transaction"
    /\ last.type = type
    /\ last.acct = acct
    /\ last.cat = cat
    /\ last.amt = amt

Nothing ==
    [op |-> "", ok |-> FALSE, acct |-> 0, other |-> 0, cat |-> 0,
     txn |-> 0, amt |-> 0, alert |-> "", type |-> "", bal |-> 0, spent |-> 0,
     redo |-> FALSE, budget |-> 0, log |-> FALSE, inputs |-> NoInput,
     failed |-> {}, written |-> {}]

\* An operation that returns before it writes anything.
Refuse(op, inputs) ==
    IF last.log
    THEN /\ last' = [Did(op, FALSE, 0, 0, 0, 0, 0, "") EXCEPT !.inputs = inputs]
         /\ UNCHANGED <<db, accounts, budgets, next_id, opening>>
    ELSE UNCHANGED vars

(***************************************************************************)
(* AccountsManager                                                         *)
(***************************************************************************)
\* account_name_to_id: a dict built in row order, so the last row of a name wins
\* (0: the name is no key).  cache is AccountsManager.accounts as it is when
\* the dict is read: the variable accounts, or the stored rows right after a
\* load_accounts.
account_name_to_id(cache, name) ==
    LET ids == {i \in DOMAIN cache : cache[i].account_name = name}
    IN  IF ids = {} THEN 0 ELSE MaxOf(ids)

account_id_to_name(cache, id) ==
    IF id \in DOMAIN cache THEN cache[id].account_name ELSE ""

\* search_accounts, in row order.
search_accounts(cache, name) ==
    Ascending({i \in DOMAIN cache : cache[i].account_name = name})

add_account(account_name, initial_balance) ==
    IF initial_balance < 0
    THEN UNCHANGED vars
    ELSE LET id == next_id.account
             row == [account_name |-> account_name, initial_balance |-> initial_balance]
         IN  /\ db_accounts' = Put(db_accounts, id, row)
             /\ accounts' = Put(accounts, id, row)
             /\ next_id' = [next_id EXCEPT !.account = id + 1]
             /\ opening' = Put(opening, id, initial_balance)
             /\ last' = Did("add_account", TRUE, id, 0, 0, 0, initial_balance, "")
             /\ UNCHANGED <<db_categories, db_budgets, db_transactions, budgets>>

(***************************************************************************)
(* CategoryManager.  A categories row is [category_name, role, role_id]:   *)
(* role is the table that holds its role row ("income", "expense", or      *)
(* "none" when neither does) and role_id the id of that role row (role     *)
(* rows are numbered in the order they are inserted; 0: none).             *)
(* income_categories / expense_categories are dicts keyed by the stored    *)
(* name and built from the role rows in their order: a key stands where    *)
(* its first row put it and holds the category of its last row.            *)
(***************************************************************************)
\* str.lower() / str.casefold() on the names of the model.
Lowered == [Food |-> "food", Rent |-> "rent"]

lower(name) == IF name \in DOMAIN Lowered THEN Lowered[name] ELSE name

\* The categories of a role whose stored name is the key.
RoleIds(role, name) ==
    {i \in DOMAIN db_categories :
        db_categories[i].role = role /\ db_categories[i].category_name = name}

\* The keys of the dict of a role that match a name case-insensitively.
matching_keys(role, name) ==
    {db_categories[i].category_name : i \in
        {j \in DOMAIN db_categories :
            /\ db_categories[j].role = role
            /\ lower(db_categories[j].category_name) = lower(name)}}

\* Where a key stands in the dict, and the category it holds.
key_position(role, key) == MinOf({db_categories[i].role_id : i \in RoleIds(role, key)})

key_value(role, key) ==
    CHOOSE i \in RoleIds(role, key) :
        \A j \in RoleIds(role, key) : db_categories[j].role_id <= db_categories[i].role_id

\* for name, data in dict.items(): if name.lower() == category_name_lower:
\* the first key that matches (0: none does).
first_match(role, name) ==
    LET keys == matching_keys(role, name)
    IN  IF keys = {} THEN 0
        ELSE key_value(role, CHOOSE k \in keys :
                                \A j \in keys : key_position(role, k) <= key_position(role, j))

\* {name.casefold(): category for name, category in dict.items()}[name]: the
\* last key that matches (0: none does).
matching_categories(role, name) ==
    LET keys == matching_keys(role, name)
    IN  IF keys = {} THEN 0
        ELSE key_value(role, CHOOSE k \in keys :
                                \A j \in keys : key_position(role, j) <= key_position(role, k))

income_categories(name) == first_match("income", name)

expense_categories(name) == first_match("expense", name)

\* Income categories are searched first, then expense categories.
get_category_id_by_name(category_name) ==
    IF income_categories(category_name) # 0
    THEN income_categories(category_name)
    ELSE expense_categories(category_name)

\* The table a category found by name is deleted from.
category_table(category_name) ==
    IF income_categories(category_name) # 0 THEN "income_categories"
    ELSE IF expense_categories(category_name) # 0 THEN "expense_categories"
    ELSE ""

\* A duplicate check that compares the stored names as they are.
category_exists_exact(category_name) ==
    RoleIds("income", category_name) # {} \/ RoleIds("expense", category_name) # {}

\* The duplicate check of add_category: the lower-cased name is among the
\* lower-cased names of the income categories or of the expense categories.
category_exists(category_name) ==
    matching_keys("income", category_name) # {} \/ matching_keys("expense", category_name) # {}

\* SELECT category_id FROM categories WHERE category_name = %s, first row.
\* The comparison follows the collation of the column, which the program
\* does not set: "ci" compares case-insensitively, "cs" does not.
selected_category(table, category_name, collation) ==
    MinOf({i \in DOMAIN table :
              IF collation = "ci"
              THEN lower(table[i].category_name) = lower(category_name)
              ELSE table[i].category_name = category_name})

\* add_category.  The categories row is inserted before the type is looked
\* at: with a type that is neither income nor expense it stays, without a
\* role row.
add_category(category_name, category_type, collation) ==
    LET inputs == Input(category_type, category_name, 0, "", 0, "", 0)
    IN  IF category_exists(category_name)
        THEN Refuse("add_category", inputs)
        ELSE LET id == next_id.category
                 inserted == Put(db_categories, id,
                                 [category_name |-> category_name, role |-> "none",
                                  role_id |-> 0])
                 category_id == selected_category(inserted, category_name, collation)
             IN  /\ db_categories' =
                       IF lower(category_type) \in {"income", "expense"}
                       THEN [inserted EXCEPT ![category_id].role = lower(category_type),
                                             ![category_id].role_id = id]
                       ELSE inserted
                 /\ next_id' = [next_id EXCEPT !.category = id + 1]
                 /\ last' = [Did("add_category", lower(category_type) \in {"income", "expense"},
                                 0, 0, category_id, id, 0, "")
                               EXCEPT !.inputs = Logged(inputs)]
                 /\ UNCHANGED <<db_accounts, db_budgets, db_transactions,
                                accounts, budgets, opening>>

\* update_category with a new name ("": left blank, and no description
\* either: no updates provided).
update_category(category_name, new_name) ==
    LET category_id == get_category_id_by_name(category_name)
    IN  IF category_id = 0 \/ new_name = ""
        THEN UNCHANGED vars
        ELSE /\ db_categories' = [db_categories EXCEPT ![category_id].category_name = new_name]
             /\ last' = Did("update_category", TRUE, 0, 0, category_id, 0, 0, "")
             /\ UNCHANGED <<db_accounts, db_budgets, db_transactions,
                            accounts, budgets, next_id, opening>>

\* A cascade that leaves the budgets of the category behind.
budgets_of_category_kept(table, category_id) == {}

\* The rows of DELETE FROM budgets WHERE category_id = %s, which runs for a
\* category found among the expense categories only.
budgets_of_category(table, category_id) ==
    IF table = "expense_categories"
    THEN {b \in DOMAIN db_budgets : db_budgets[b].category_id = category_id}
    ELSE {}

\* The rows of DELETE FROM transactions WHERE category_id = %s.
rows_of_category(category_id) ==
    {t \in DOMAIN db_transactions : db_transactions[t].category_id = category_id}

\* delete_category.  The ghost record counts the transactions (amt) and the
\* budgets (budget) removed with the category, and keeps its role (type).
delete_category(category_name) ==
    LET category_id == get_category_id_by_name(category_name)
        table == category_table(category_name)
    IN  IF category_id = 0
        THEN UNCHANGED vars
        ELSE /\ db_budgets' = Drop(db_budgets, budgets_of_category(table, category_id))
             /\ db_transactions' = Drop(db_transactions, rows_of_category(category_id))
             /\ db_categories' = Drop(db_categories, {category_id})
             /\ last' = [Did("delete_category", TRUE, 0, 0, category_id, 0,
                             Cardinality(rows_of_category(category_id)), "")
                           EXCEPT !.type = db_categories[category_id].role,
                                  !.budget = Cardinality(budgets_of_category(table,
                                                                             category_id))]
             /\ UNCHANGED <<db_accounts, accounts, budgets, next_id, opening>>

(***************************************************************************)
(* BudgetManager                                                           *)
(***************************************************************************)
\* load_budgets on a budgets table: a dict keyed by category_id, built in row
\* order, so the last budget row of a category is the one it holds.
load_budgets(table) ==
    LET cats == {table[b].category_id : b \in DOMAIN table}
        row(c) == LET b == MaxOf({i \in DOMAIN table : table[i].category_id = c})
                  IN  [budget_id |-> b, category_id |-> c,
                       monthly_limit |-> table[b].monthly_limit, spent |-> table[b].spent]
    IN  [c \in cats |-> row(c)]

\* An alert that starts at the monthly limit, not at 90% of it.
check_budget_alerts_at_limit(monthly_limit, updated_spent) ==
    IF monthly_limit = 0 THEN ""
    ELSE IF updated_spent >= monthly_limit THEN "nearing"
    ELSE "none"

\* The alert check_budget_alerts prints for a budget (amounts in cents:
\* spent >= 0.9 * limit is 10 * spent >= 9 * limit).  With a limit of 0 the
\* percentage divides by zero and no alert is printed ("").
check_budget_alerts(monthly_limit, updated_spent) ==
    IF monthly_limit = 0 THEN ""
    ELSE IF 10 * updated_spent >= 9 * monthly_limit THEN "nearing"
    ELSE IF updated_spent > monthly_limit THEN "exceeded"
    ELSE "none"

\* The same sum over the category's Expense rows of every month.
total_spent_all_months(category_id) ==
    LET rows == {t \in DOMAIN db_transactions :
                    /\ db_transactions[t].category_id = category_id
                    /\ db_transactions[t].transaction_type = "Expense"}
    IN  SumOver(rows, [t \in rows |-> db_transactions[t].amount])

\* SUM(amount) of the category's Expense rows dated in the current month.
total_spent(category_id) ==
    LET rows == {t \in DOMAIN db_transactions :
                    /\ db_transactions[t].category_id = category_id
                    /\ db_transactions[t].transaction_type = "Expense"
                    /\ db_transactions[t].date = "cur"}
    IN  SumOver(rows, [t \in rows |-> db_transactions[t].amount])

add_budget(category_name, monthly_limit) ==
    IF expense_categories(category_name) = 0
    THEN Refuse("add_budget", Input("", "", 0, "", 0, category_name, monthly_limit))
    ELSE LET category_id == get_category_id_by_name(category_name)
             id == next_id.budget
             table == Put(db_budgets, id,
                          [category_id |-> category_id, monthly_limit |-> monthly_limit,
                           spent |-> total_spent(category_id)])
         IN  /\ db_budgets' = table
             /\ budgets' = load_budgets(table)
             /\ next_id' = [next_id EXCEPT !.budget = id + 1]
             /\ last' = [Did("add_budget", TRUE, 0, 0, category_id, 0,
                             total_spent(category_id), "")
                           EXCEPT !.budget = id,
                                  !.inputs = Logged(Input("", "", 0, "", 0, category_name,
                                                          monthly_limit))]
             /\ UNCHANGED <<db_accounts, db_categories, db_transactions, accounts, opening>>

\* The spent of the budget BudgetManager holds for a category (the last
\* budget row of the category; 0 when it has none).
Spent(category_id) ==
    LET rows == {b \in DOMAIN db_budgets : db_budgets[b].category_id = category_id}
    IN  IF rows = {} THEN 0 ELSE db_budgets[MaxOf(rows)].spent

HasBudget(category_id) == \E b \in DOMAIN db_budgets : db_budgets[b].category_id = category_id

Balance(account_id) ==
    IF account_id \in DOMAIN db_accounts THEN db_accounts[account_id].initial_balance ELSE 0

\* A budget operation that reloads the budgets cache (view_budgets) and then
\* gives up.
refused_after_view(op, loaded, inputs) ==
    /\ budgets' = loaded
    /\ last' = IF last.log THEN [Did(op, FALSE, 0, 0, 0, 0, 0, "") EXCEPT !.inputs = inputs]
               ELSE IF budgets = loaded THEN last
               ELSE Did(op, FALSE, 0, 0, 0, 0, 0, "")
    /\ UNCHANGED <<db, accounts, next_id, opening>>

\* update_budget: view_budgets reloads the cache first.
update_budget(category_name, new_monthly_limit) ==
    LET loaded == load_budgets(db_budgets)
        category_id == get_category_id_by_name(category_name)
        inputs == Input("", "", 0, "", 0, category_name, new_monthly_limit)
    IN  IF category_id \notin DOMAIN loaded
        THEN refused_after_view("update_budget", loaded, inputs)
        ELSE LET table == [db_budgets EXCEPT
                             ![loaded[category_id].budget_id].monthly_limit = new_monthly_limit]
             IN  /\ db_budgets' = table
                 /\ budgets' = load_budgets(table)
                 /\ last' = [Did("update_budget", TRUE, 0, 0, category_id, 0, 0, "")
                               EXCEPT !.budget = loaded[category_id].budget_id,
                                      !.inputs = Logged(inputs)]
                 /\ UNCHANGED <<db_accounts, db_categories, db_transactions, accounts,
                                next_id, opening>>

delete_budget(category_name, confirm) ==
    LET loaded == load_budgets(db_budgets)
        category_id == get_category_id_by_name(category_name)
        inputs == [Input("", "", 0, "", 0, category_name, 0) EXCEPT !.confirm = confirm]
    IN  IF category_id \notin DOMAIN loaded \/ confirm # "yes"
        THEN refused_after_view("delete_budget", loaded, inputs)
        ELSE LET table == Drop(db_budgets, {loaded[category_id].budget_id})
             IN  /\ db_budgets' = table
                 /\ budgets' = load_budgets(table)
                 /\ last' = [Did("delete_budget", TRUE, 0, 0, category_id, 0, 0, "")
                               EXCEPT !.budget = loaded[category_id].budget_id,
                                      !.inputs = Logged(inputs)]
                 /\ UNCHANGED <<db_accounts, db_categories, db_transactions, accounts,
                                next_id, opening>>

\* An update that sets up a budget for a category it finds none for.
update_budget_after_transaction_creating(category_name, amount) ==
    LET category_id == get_category_id_by_name(category_name)
        table == IF category_id \in DOMAIN budgets
                 THEN [db_budgets EXCEPT ![budgets[category_id].budget_id].spent = @ + amount]
                 ELSE Put(db_budgets, next_id.budget,
                          [category_id |-> category_id, monthly_limit |-> 0, spent |-> amount])
    IN  [db_budgets |-> table, budgets |-> load_budgets(table), alert |-> "",
         budget_id |-> 0]

\* An update that leaves the spent as it is where the amount would take it
\* above the monthly limit.
update_budget_after_transaction_capped(category_name, amount) ==
    LET category_id == get_category_id_by_name(category_name)
        above == /\ category_id \in DOMAIN budgets
                 /\ budgets[category_id].budget_id \in DOMAIN db_budgets
                 /\ budgets[category_id].spent + amount > budgets[category_id].monthly_limit
        table == IF category_id \in DOMAIN budgets /\ ~above
                 THEN [db_budgets EXCEPT ![budgets[category_id].budget_id].spent = @ + amount]
                 ELSE db_budgets
    IN  [db_budgets |-> table, budgets |-> load_budgets(table),
         alert |-> IF above THEN "exceeded" ELSE "none",
         budget_id |-> IF category_id \in DOMAIN budgets
                       THEN budgets[category_id].budget_id ELSE 0]

\* update_budget_after_transaction: what it leaves in the budgets table and in
\* the cache, the alert it evaluates ("" when it finds no budget) and the
\* budget the alert is about (0: none).
update_budget_after_transaction(category_name, amount) ==
    LET category_id == get_category_id_by_name(category_name)
    IN  IF category_id \notin DOMAIN budgets
        THEN [db_budgets |-> db_budgets, budgets |-> budgets, alert |-> "", budget_id |-> 0]
        ELSE LET budget == budgets[category_id]
                 updated_spent == budget.spent + amount
                 table == IF budget.budget_id \in DOMAIN db_budgets
                          THEN [db_budgets EXCEPT ![budget.budget_id].spent = updated_spent]
                          ELSE db_budgets
                 loaded == load_budgets(table)
             IN  [db_budgets |-> table, budgets |-> loaded,
                  alert |-> IF category_id \in DOMAIN loaded
                            THEN check_budget_alerts(loaded[category_id].monthly_limit,
                                                     updated_spent)
                            ELSE "",
                  budget_id |-> IF category_id \in DOMAIN loaded
                                THEN loaded[category_id].budget_id
                                ELSE 0]

(***************************************************************************)
(* TransactionsManager                                                     *)
(* A transactions row is [account_id, category_id, transaction_type,       *)
(* amount, notes, date, g_pair]; g_pair is ghost: the id of the other leg  *)
(* the row was inserted with (0 for an Income or Expense row).             *)
(***************************************************************************)
\* UPDATE accounts SET initial_balance = initial_balance + delta WHERE account_id = id
adjust_balance(table, id, delta) ==
    IF id \in DOMAIN table
    THEN [table EXCEPT ![id].initial_balance = @ + delta]
    ELSE table

\* The account an operation works on: the only match, or the one chosen from
\* the numbered list (0: invalid selection).
select_account(matching, choice) ==
    IF Len(matching) = 1 THEN matching[1]
    ELSE IF choice \in 1..Len(matching) THEN matching[choice]
    ELSE 0

\* The two funds checks of an expense, against the balance the cache holds.
expense_refused(old_amount, amount) == old_amount <= 0 \/ old_amount < amount

\* A balance change that adds the amount whatever the type.
balance_delta_unsigned(transaction_type, amount) == amount

\* The balance change of a committed income / expense.
balance_delta(transaction_type, amount) ==
    IF transaction_type = "income" THEN amount ELSE 0 - amount

\* A reversal that applies the sign of the creation again.
reversal_delta_as_created(transaction_type, amount) ==
    IF transaction_type = "Income" THEN amount ELSE 0 - amount

\* The balance change of a deleted Income / Expense row.
reversal_delta(transaction_type, amount) ==
    IF transaction_type = "Income" THEN 0 - amount ELSE amount

capitalize(transaction_type) ==
    IF transaction_type = "income" THEN "Income" ELSE "Expense"

\* The checks of an income / expense creation, in the order of the prompts:
\* one of them fails.
creation_refused(transaction_type, account_name, choice, category_name, amount) ==
    LET account_id == select_account(search_accounts(accounts, account_name), choice)
        category_id == IF transaction_type = "income"
                       THEN matching_categories("income", category_name)
                       ELSE matching_categories("expense", category_name)
    IN  \/ transaction_type \notin {"income", "expense"}
        \/ account_name_to_id(accounts, account_name) = 0
        \/ account_id = 0
        \/ category_id = 0
        \/ amount <= 0
        \/ /\ transaction_type = "expense"
           /\ expense_refused(accounts[account_id].initial_balance, amount)

add_transaction(transaction_type, account_name, choice, category_name, amount, date, notes) ==
    LET account_id == select_account(search_accounts(accounts, account_name), choice)
        category_id == IF transaction_type = "income"
                       THEN matching_categories("income", category_name)
                       ELSE matching_categories("expense", category_name)
        inputs == Input(transaction_type, account_name, choice, "", 0, category_name, amount)
        refused == creation_refused(transaction_type, account_name, choice, category_name,
                                    amount)
    IN  IF refused
        THEN Refuse("add_transaction", inputs)
        ELSE LET id == next_id.transaction
                 row == [account_id |-> account_id, category_id |-> category_id,
                         transaction_type |-> capitalize(transaction_type),
                         amount |-> amount, notes |-> notes, date |-> date, g_pair |-> 0]
                 budget == IF transaction_type = "expense"
                           THEN update_budget_after_transaction(lower(category_name), amount)
                           ELSE [db_budgets |-> db_budgets, budgets |-> budgets, alert |-> "",
                                 budget_id |-> 0]
             IN  /\ db_transactions' = Put(db_transactions, id, row)
                 /\ db_accounts' = adjust_balance(db_accounts, account_id,
                                                  balance_delta(transaction_type, amount))
                 /\ db_budgets' = budget.db_budgets
                 /\ budgets' = budget.budgets
                 /\ next_id' = [next_id EXCEPT !.transaction = id + 1]
                 /\ last' = [DidOn("add_transaction", account_id, category_id, id, amount,
                                   budget.alert, capitalize(transaction_type),
                                   Balance(account_id), Spent(category_id))
                               EXCEPT !.redo = Recreates(account_id, category_id,
                                                         capitalize(transaction_type), amount),
                                      !.budget = budget.budget_id,
                                      !.inputs = Logged(inputs)]
                 /\ UNCHANGED <<db_categories, accounts, opening>>

\* Transfer rows filed under the category of the id 2.
transfer_rows_categorised(id, source_id, dest_id, source, dest, amount, date, text) ==
    Put(Put(db_transactions, id,
            [account_id |-> source_id, category_id |-> 2, transaction_type |-> "Transfer",
             amount |-> 0 - amount, notes |-> [kind |-> "to", name |-> dest, text |-> text],
             date |-> date, g_pair |-> id + 1]),
        id + 1,
        [account_id |-> dest_id, category_id |-> 2, transaction_type |-> "Transfer",
         amount |-> amount, notes |-> [kind |-> "from", name |-> source, text |-> text],
         date |-> date, g_pair |-> id])

\* The two rows a transfer inserts: the debit leg, then the credit leg.
transfer_rows(id, source_id, dest_id, source, dest, amount, date, text) ==
    Put(Put(db_transactions, id,
            [account_id |-> source_id, category_id |-> 0, transaction_type |-> "Transfer",
             amount |-> 0 - amount, notes |-> [kind |-> "to", name |-> dest, text |-> text],
             date |-> date, g_pair |-> id + 1]),
        id + 1,
        [account_id |-> dest_id, category_id |-> 0, transaction_type |-> "Transfer",
         amount |-> amount, notes |-> [kind |-> "from", name |-> source, text |-> text],
         date |-> date, g_pair |-> id])

\* A transfer that debits the source and credits nobody.
transfer_balances_debit_only(source_id, dest_id, amount) ==
    adjust_balance(db_accounts, source_id, 0 - amount)

\* A funds check of a transfer against the balance the cache holds.
insufficient_funds_cached(source_id, amount) ==
    source_id \notin DOMAIN accounts \/ accounts[source_id].initial_balance < amount

\* The funds check of a transfer: SELECT initial_balance FROM accounts WHERE
\* account_id = %s, compared with the amount.
insufficient_funds(source_id, amount) ==
    source_id \notin DOMAIN db_accounts \/ db_accounts[source_id].initial_balance < amount

\* The balances after a transfer of amount from source_id to dest_id.
transfer_balances(source_id, dest_id, amount) ==
    adjust_balance(adjust_balance(db_accounts, source_id, 0 - amount), dest_id, amount)

\* The checks of a transfer, in the order of the prompts: one of them fails.
transfer_refused(source, dest, source_choice, dest_choice, amount) ==
    LET matching_source == search_accounts(accounts, source)
        matching_dest == search_accounts(accounts, dest)
        source_id == select_account(matching_source, source_choice)
        dest_id == select_account(matching_dest, dest_choice)
    IN  \/ account_name_to_id(accounts, source) = 0
        \/ account_name_to_id(accounts, dest) = 0
        \/ source_id = 0
        \/ Len(matching_source) # 1 /\ accounts[source_id].initial_balance <= 0
        \/ dest_id = 0
        \/ source_id = dest_id
        \/ amount = 0
        \/ insufficient_funds(source_id, amount)

transfer_funds(source, dest, source_choice, dest_choice, amount, date, text) ==
    LET matching_source == search_accounts(accounts, source)
        matching_dest == search_accounts(accounts, dest)
        source_id == select_account(matching_source, source_choice)
        dest_id == select_account(matching_dest, dest_choice)
        refused == transfer_refused(source, dest, source_choice, dest_choice, amount)
        inputs == Input("transfer", source, source_choice, dest, dest_choice, "", amount)
    IN  IF refused
        THEN Refuse("transfer_funds", inputs)
        ELSE LET id == next_id.transaction
             IN  /\ db_transactions' =
                       transfer_rows(id, source_id, dest_id, source, dest, amount, date, text)
                 /\ db_accounts' = transfer_balances(source_id, dest_id, amount)
                 /\ next_id' = [next_id EXCEPT !.transaction = id + 2]
                 /\ last' = [Did("transfer_funds", TRUE, source_id, dest_id, 0, id, amount, "")
                               EXCEPT !.inputs = Logged(inputs)]
                 /\ UNCHANGED <<db_categories, db_budgets, accounts, budgets, opening>>

\* Database.execute returns False for a write that raises: the store is as
\* it was before the write.  failing is the set of the writes of an operation
\* (numbered in the order the code issues them) that raise.  An INSERT that
\* fails has taken its AUTO_INCREMENT value (the counter is not set back).
\*
\* transfer_funds with failing writes: 1 and 2 are the INSERTs of the debit
\* and of the credit row, 3 and 4 the UPDATEs of the source and of the
\* destination balance.  No result is looked at: the four writes are issued
\* and success is printed.
transfer_funds_failing(source, dest, amount, date, text, failing) ==
    LET source_id == select_account(search_accounts(accounts, source), 1)
        dest_id == select_account(search_accounts(accounts, dest), 1)
        id == next_id.transaction
        credit_id == id + 1
        debited == IF 1 \in failing THEN db_transactions
                   ELSE Put(db_transactions, id,
                            [account_id |-> source_id, category_id |-> 0,
                             transaction_type |-> "Transfer", amount |-> 0 - amount,
                             notes |-> [kind |-> "to", name |-> dest, text |-> text],
                             date |-> date,
                             g_pair |-> IF 2 \in failing THEN 0 ELSE credit_id])
        credited == IF 2 \in failing THEN debited
                    ELSE Put(debited, credit_id,
                             [account_id |-> dest_id, category_id |-> 0,
                              transaction_type |-> "Transfer", amount |-> amount,
                              notes |-> [kind |-> "from", name |-> source, text |-> text],
                              date |-> date,
                              g_pair |-> IF 1 \in failing THEN 0 ELSE id])
        taken == IF 3 \in failing THEN db_accounts
                 ELSE adjust_balance(db_accounts, source_id, 0 - amount)
        given == IF 4 \in failing THEN taken ELSE adjust_balance(taken, dest_id, amount)
    IN  IF failing = {}
        THEN transfer_funds(source, dest, 1, 1, amount, date, text)
        ELSE IF transfer_refused(source, dest, 1, 1, amount)
        THEN UNCHANGED vars
        ELSE /\ db_transactions' = credited
             /\ db_accounts' = given
             /\ next_id' = [next_id EXCEPT !.transaction = id + 2]
             /\ last' = [Did("transfer_funds", TRUE, source_id, dest_id, 0, id, amount, "")
                           EXCEPT !.failed = failing, !.written = (1..4) \ failing]
             /\ UNCHANGED <<db_categories, db_budgets, accounts, budgets, opening>>

\* Database.execute's result for a write: False when the write raises.
execute_unchecked(write, failing) == TRUE

execute(write, failing) == write \notin failing

\* add_transaction with failing writes: 1 is the INSERT of the row, 2 the
\* UPDATE of the balance, 3 the UPDATE of the spent of the budget (issued for
\* an expense whose category is a key of the budgets cache).  The result of
\* the INSERT is looked at ("Failed to add transaction": nothing else is
\* written); the result of the UPDATE of the balance is not; after a failed
\* UPDATE of the spent the cache is not reloaded and the alert is still
\* evaluated.  Success is printed whenever the INSERT succeeded.
add_transaction_failing(transaction_type, account_name, category_name, amount, date, failing) ==
    LET account_id == select_account(search_accounts(accounts, account_name), 1)
        category_id == IF transaction_type = "income"
                       THEN matching_categories("income", category_name)
                       ELSE matching_categories("expense", category_name)
        id == next_id.transaction
        row == [account_id |-> account_id, category_id |-> category_id,
                transaction_type |-> capitalize(transaction_type),
                amount |-> amount, notes |-> NoNotes, date |-> date, g_pair |-> 0]
        budgeted == /\ transaction_type = "expense"
                    /\ get_category_id_by_name(lower(category_name)) \in DOMAIN budgets
        issued == IF budgeted THEN 1..3 ELSE 1..2
        cached == budgets[get_category_id_by_name(lower(category_name))]
        budget == IF ~budgeted
                  THEN [db_budgets |-> db_budgets, budgets |-> budgets, alert |-> "",
                        budget_id |-> 0]
                  ELSE IF 3 \in failing
                  THEN [db_budgets |-> db_budgets, budgets |-> budgets,
                        alert |-> check_budget_alerts(cached.monthly_limit,
                                                      cached.spent + amount),
                        budget_id |-> cached.budget_id]
                  ELSE update_budget_after_transaction(lower(category_name), amount)
    IN  IF failing \cap issued = {}
        THEN add_transaction(transaction_type, account_name, 1, category_name, amount, date,
                             NoNotes)
        ELSE IF creation_refused(transaction_type, account_name, 1, category_name, amount)
        THEN UNCHANGED vars
        ELSE IF ~execute(1, failing)
        THEN /\ last' = [Did("add_transaction", FALSE, account_id, 0, category_id, 0, amount, "")
                           EXCEPT !.failed = {1}]
             /\ next_id' = [next_id EXCEPT !.transaction = id + 1]
             /\ UNCHANGED <<db, accounts, budgets, opening>>
        ELSE /\ db_transactions' = IF 1 \in failing THEN db_transactions
                                   ELSE Put(db_transactions, id, row)
             /\ db_accounts' = IF 2 \in failing THEN db_accounts
                               ELSE adjust_balance(db_accounts, account_id,
                                                   balance_delta(transaction_type, amount))
             /\ db_budgets' = budget.db_budgets
             /\ budgets' = budget.budgets
             /\ next_id' = [next_id EXCEPT !.transaction = id + 1]
             /\ last' = [DidOn("add_transaction", account_id, category_id, id, amount,
                               budget.alert, capitalize(transaction_type), Balance(account_id),
                               Spent(category_id))
                           EXCEPT !.budget = budget.budget_id,
                                  !.failed = failing \cap issued,
                                  !.written = issued \ failing]
             /\ UNCHANGED <<db_categories, accounts, opening>>

\* The account name the transactions query joins to a row (NULL: "").
joined_account_name(transaction) ==
    IF transaction.account_id \in DOMAIN db_accounts
    THEN db_accounts[transaction.account_id].account_name
    ELSE ""

\* The category name the transactions query joins to a row (NULL: "").
joined_category_name(transaction) ==
    IF transaction.category_id \in DOMAIN db_categories
    THEN db_categories[transaction.category_id].category_name
    ELSE ""

\* The two accounts of a transfer as delete and update recover them from the
\* selected row: its own account and the account its notes name.
transfer_accounts(cache, transaction) ==
    IF transaction.notes.kind = "to"
    THEN [source_id |-> transaction.account_id,
          dest_name |-> transaction.notes.name,
          dest_id |-> account_name_to_id(cache, transaction.notes.name)]
    ELSE [source_id |-> account_name_to_id(cache, transaction.notes.name),
          dest_name |-> account_id_to_name(cache, transaction.account_id),
          dest_id |-> transaction.account_id]

\* Rows WHERE account_id = %s AND notes LIKE 'Transfer to <name>%' (kind "to")
\* or 'Transfer from <name>%' (kind "from").
like_rows(account_id, kind, name) ==
    {t \in DOMAIN db_transactions :
        /\ db_transactions[t].account_id = account_id
        /\ db_transactions[t].notes.kind = kind
        /\ db_transactions[t].notes.name = name}

\* The rows a transfer delete or update addresses as the two legs.
transfer_legs(transaction, parties) ==
    like_rows(parties.source_id, "to", parties.dest_name)
        \cup like_rows(parties.dest_id, "from", joined_account_name(transaction))

\* The warning gate of a delete: the balance would go negative.
needs_confirmation(current_balance, amount) ==
    current_balance <= 0 \/ current_balance < amount

\* The balances a transfer delete writes: the row's signed amount is taken
\* from the source and given to the destination.
reversed_balances(source_id, dest_id, amount) ==
    adjust_balance(adjust_balance(db_accounts, source_id, 0 - amount), dest_id, amount)

delete_transaction(transaction_id, confirm, confirm_again) ==
    IF transaction_id \notin DOMAIN db_transactions \/ confirm # "yes"
    THEN UNCHANGED vars
    ELSE
    LET transaction == db_transactions[transaction_id]
        amount == transaction.amount
        account_id == transaction.account_id
    IN  IF transaction.transaction_type = "Income"
        THEN IF \/ account_id \notin DOMAIN accounts
                \/ /\ needs_confirmation(accounts[account_id].initial_balance, amount)
                   /\ confirm_again # "yes"
             THEN UNCHANGED vars
             ELSE LET table == adjust_balance(db_accounts, account_id,
                                              reversal_delta("Income", amount))
                  IN  /\ db_accounts' = table
                      /\ accounts' = table
                      /\ db_transactions' = Drop(db_transactions, {transaction_id})
                      /\ last' = DidOn("delete_transaction", account_id,
                                       transaction.category_id, transaction_id, amount, "",
                                       "Income", Balance(account_id),
                                       Spent(transaction.category_id))
                      /\ UNCHANGED <<db_categories, db_budgets, budgets, next_id, opening>>
        ELSE IF transaction.transaction_type = "Expense"
        THEN LET table == adjust_balance(db_accounts, account_id,
                                         reversal_delta("Expense", amount))
                 budget == update_budget_after_transaction(
                               joined_category_name(transaction), 0 - amount)
             IN  /\ db_accounts' = table
                 /\ accounts' = table
                 /\ db_budgets' = budget.db_budgets
                 /\ budgets' = budget.budgets
                 /\ db_transactions' = Drop(db_transactions, {transaction_id})
                 /\ last' = [DidOn("delete_transaction", account_id,
                                   transaction.category_id, transaction_id, amount,
                                   budget.alert, "Expense", Balance(account_id),
                                   Spent(transaction.category_id))
                               EXCEPT !.budget = budget.budget_id]
                 /\ UNCHANGED <<db_categories, next_id, opening>>
        ELSE LET parties == transfer_accounts(accounts, transaction)
             IN  IF \/ parties.dest_id = 0
                    \/ parties.source_id = 0
                    \/ parties.dest_id \notin DOMAIN accounts
                    \/ /\ needs_confirmation(accounts[parties.dest_id].initial_balance, amount)
                       /\ confirm_again # "yes"
                 THEN UNCHANGED vars
                 ELSE LET table == reversed_balances(parties.source_id, parties.dest_id, amount)
                      IN  /\ db_accounts' = table
                          /\ accounts' = table
                          /\ db_transactions' =
                                Drop(db_transactions,
                                     transfer_legs(transaction, parties) \cup {transaction_id})
                          /\ last' = [Did("delete_transaction", TRUE, parties.source_id,
                                          parties.dest_id, 0, transaction_id, amount, "")
                                      EXCEPT !.type = "Transfer"]
                          /\ UNCHANGED <<db_categories, db_budgets, budgets, next_id, opening>>

\* An operation that reloads the accounts cache and then gives up.
refused_after_load(op) ==
    /\ accounts' = db_accounts
    /\ last' = IF accounts = db_accounts THEN last ELSE Did(op, FALSE, 0, 0, 0, 0, 0, "")
    /\ UNCHANGED <<db, budgets, next_id, opening>>

\* An update that reloads the accounts cache and then gives up.
refused_update(inputs) ==
    /\ accounts' = db_accounts
    /\ last' = IF last.log
               THEN [Did("update_transaction", FALSE, 0, 0, 0, 0, 0, "") EXCEPT !.inputs = inputs]
               ELSE IF accounts = db_accounts THEN last
               ELSE Did("update_transaction", FALSE, 0, 0, 0, 0, 0, "")
    /\ UNCHANGED <<db, budgets, next_id, opening>>

\* What was typed at the prompts of an update of the row transaction_id.
update_inputs(transaction_id, entered_amount, new_category, new_notes) ==
    [Input("", "", 0, "", 0, new_category, entered_amount)
        EXCEPT !.txn = transaction_id, !.notes = new_notes.text]

\* UPDATE budgets SET spent = spent + delta WHERE category_id = %s
adjust_spent(table, category_id, delta) ==
    [b \in DOMAIN table |->
        IF table[b].category_id = category_id
        THEN [table[b] EXCEPT !.spent = @ + delta]
        ELSE table[b]]

\* The budgets table after an expense row moved from old_category_id with
\* old_amount to new_category_id with new_amount.
moved_spent(old_category_id, new_category_id, old_amount, new_amount) ==
    IF old_category_id # new_category_id
    THEN adjust_spent(adjust_spent(db_budgets, old_category_id, 0 - old_amount),
                      new_category_id, new_amount)
    ELSE adjust_spent(db_budgets, new_category_id, new_amount - old_amount)

\* update_transfer_funds.  entered_amount is what was typed at the amount
\* prompt (0: left blank); it is read as a string, so a typed amount is
\* refused.  new_notes is what was typed at the notes prompt.
update_transfer_funds(transaction_id, entered_amount, new_date, new_notes) ==
    LET transaction == db_transactions[transaction_id]
        old_amount == IF transaction.amount < 0 THEN 0 - transaction.amount
                      ELSE transaction.amount
        new_amount == old_amount
        parties == transfer_accounts(db_accounts, transaction)
        source_id == parties.source_id
        dest_id == parties.dest_id
        date == IF new_date = "" THEN transaction.date ELSE new_date
        debit == like_rows(source_id, "to", parties.dest_name)
        credit == like_rows(dest_id, "from", joined_account_name(transaction))
        rewritten(t) ==
            IF t \in debit
            THEN [db_transactions[t] EXCEPT
                    !.amount = 0 - new_amount, !.date = date,
                    !.notes = IF new_notes # transaction.notes
                              THEN [kind |-> "to", name |-> parties.dest_name,
                                    text |-> new_notes.text]
                              ELSE @]
            ELSE IF t \in credit
            THEN [db_transactions[t] EXCEPT
                    !.amount = new_amount, !.date = date,
                    !.notes = IF new_notes # transaction.notes
                              THEN [kind |-> "from", name |-> joined_account_name(transaction),
                                    text |-> new_notes.text]
                              ELSE @]
            ELSE db_transactions[t]
    IN  IF \/ dest_id = 0
           \/ source_id = 0
           \/ entered_amount # 0
           \/ source_id \notin DOMAIN db_accounts
           \/ db_accounts[source_id].initial_balance + old_amount < new_amount
        THEN refused_update(update_inputs(transaction_id, entered_amount, "", new_notes))
        ELSE /\ db_transactions' = [t \in DOMAIN db_transactions |-> rewritten(t)]
             /\ db_accounts' =
                   adjust_balance(adjust_balance(db_accounts, source_id, old_amount - new_amount),
                                  dest_id, new_amount - old_amount)
             /\ accounts' = db_accounts
             /\ last' = [Did("update_transfer_funds", TRUE, source_id, dest_id, 0,
                             transaction_id, new_amount, "")
                           EXCEPT !.inputs = Logged(update_inputs(transaction_id, entered_amount,
                                                                  "", new_notes))]
             /\ UNCHANGED <<db_categories, db_budgets, budgets, next_id, opening>>

\* update_transaction.  entered_amount as above; new_category "" and
\* new_date "" are blank inputs (keep the current value); new_notes with
\* text "" is a blank input too.
update_transaction(transaction_id, entered_amount, new_category, new_notes, new_date) ==
    IF transaction_id \notin DOMAIN db_transactions
    THEN refused_after_load("update_transaction")
    ELSE
    LET transaction == db_transactions[transaction_id]
        inputs == update_inputs(transaction_id, entered_amount, new_category, new_notes)
        old_amount == transaction.amount
        new_amount == old_amount
        old_category_id == transaction.category_id
        category == IF new_category = "" THEN joined_category_name(transaction)
                    ELSE new_category
        new_category_id == get_category_id_by_name(category)
        account_id == transaction.account_id
        row == [transaction EXCEPT
                  !.category_id = new_category_id, !.amount = new_amount,
                  !.notes = IF new_notes.text = "" THEN @ ELSE new_notes,
                  !.date = IF new_date = "" THEN @ ELSE new_date]
    IN  IF transaction.transaction_type = "Transfer"
        THEN update_transfer_funds(transaction_id, entered_amount, new_date, new_notes)
        ELSE IF entered_amount # 0 \/ new_category_id = 0
        THEN refused_update(inputs)
        ELSE IF transaction.transaction_type = "Expense"
        THEN LET table == adjust_balance(db_accounts, account_id, old_amount - new_amount)
                 spent == moved_spent(old_category_id, new_category_id,
                                      old_amount, new_amount)
             IN  /\ db_transactions' = [db_transactions EXCEPT ![transaction_id] = row]
                 /\ db_accounts' = table
                 /\ accounts' = table
                 /\ db_budgets' = spent
                 /\ budgets' = load_budgets(spent)
                 /\ last' = [Did("update_transaction", TRUE, account_id, 0, new_category_id,
                                 transaction_id, new_amount, "")
                               EXCEPT !.inputs = Logged(inputs)]
                 /\ UNCHANGED <<db_categories, next_id, opening>>
        ELSE LET table == adjust_balance(db_accounts, account_id, new_amount - old_amount)
             IN  /\ db_transactions' = [db_transactions EXCEPT ![transaction_id] = row]
                 /\ db_accounts' = table
                 /\ accounts' = table
                 /\ last' = [Did("update_transaction", TRUE, account_id, 0, new_category_id,
                                 transaction_id, new_amount, "")
                               EXCEPT !.inputs = Logged(inputs)]
                 /\ UNCHANGED <<db_categories, db_budgets, budgets, next_id, opening>>

\* view_accounts: reloads the cache and prints it.
view_accounts ==
    /\ accounts # db_accounts
    /\ accounts' = db_accounts
    /\ last' = Did("view_accounts", TRUE, 0, 0, 0, 0, 0, "")
    /\ UNCHANGED <<db, budgets, next_id, opening>>

\* update_account.  new_name "" is a blank input; new_balance is <<>> for a
\* blank input and <<b>> for an entered balance b.
update_account(account_name, choice, new_name, new_balance) ==
    LET account_id == select_account(search_accounts(db_accounts, account_name), choice)
        renamed == IF new_name = "" THEN db_accounts
                   ELSE [db_accounts EXCEPT ![account_id].account_name = new_name]
        table == IF new_balance = <<>> THEN renamed
                 ELSE [renamed EXCEPT ![account_id].initial_balance = new_balance[1]]
    IN  IF account_name_to_id(db_accounts, account_name) = 0 \/ account_id = 0
        THEN refused_after_load("update_account")
        ELSE /\ db_accounts' = table
             /\ accounts' = table
             /\ last' = Did("update_account", TRUE, account_id, 0, 0, 0, 0, "")
             /\ UNCHANGED <<db_categories, db_budgets, db_transactions, budgets,
                            next_id, opening>>

\* A cascade that leaves the transfer legs of the account behind.
rows_of_account_but_transfers(account_id) ==
    {t \in DOMAIN db_transactions :
        /\ db_transactions[t].account_id = account_id
        /\ db_transactions[t].transaction_type # "Transfer"}

\* The rows of DELETE FROM transactions WHERE account_id = %s.
rows_of_account(account_id) ==
    {t \in DOMAIN db_transactions : db_transactions[t].account_id = account_id}

\* delete_account.  The ghost record counts the rows removed with the account.
delete_account(account_name, choice, confirm) ==
    LET account_id == select_account(search_accounts(db_accounts, account_name), choice)
    IN  IF \/ account_name_to_id(db_accounts, account_name) = 0
           \/ account_id = 0
           \/ confirm # "yes"
        THEN refused_after_load("delete_account")
        ELSE /\ db_transactions' = Drop(db_transactions, rows_of_account(account_id))
             /\ db_accounts' = Drop(db_accounts, {account_id})
             /\ accounts' = Drop(db_accounts, {account_id})
             /\ last' = Did("delete_account", TRUE, account_id, 0, 0, 0,
                            Cardinality(rows_of_account(account_id)), "")
             /\ UNCHANGED <<db_categories, db_budgets, budgets, next_id, opening>>

(***************************************************************************)
(* Specifications.  The program is constructed over an existing store:     *)
(* Init is a store with accounts and categories already added (each        *)
(* account with the balance it was created with, no transactions, no       *)
(* budgets) and the caches as the constructors load them.  An operation    *)
(* that is refused leaves every variable as it is, but for the record of   *)
(* the refusal in the specifications that start with the log on.           *)
(***************************************************************************)
account_row(name, balance) == [account_name |-> name, initial_balance |-> balance]

\* A category row with its income_categories / expense_categories row.
category_row(name, role, role_id) == [category_name |-> name, role |-> role, role_id |-> role_id]

InitStoreAs(account_rows, category_rows, record) ==
    /\ db_accounts = account_rows
    /\ db_categories = category_rows
    /\ db_budgets = Empty
    /\ db_transactions = Empty
    /\ accounts = account_rows
    /\ budgets = Empty
    /\ next_id = [account |-> Cardinality(DOMAIN account_rows) + 1,
                  category |-> Cardinality(DOMAIN category_rows) + 1,
                  budget |-> 1, transaction |-> 1]
    /\ opening = [i \in DOMAIN account_rows |-> account_rows[i].initial_balance]
    /\ last = record

InitStore(account_rows, category_rows) == InitStoreAs(account_rows, category_rows, Nothing)

\* The same store, with the refusals recorded.
InitRecording(account_rows, category_rows) ==
    InitStoreAs(account_rows, category_rows, [Nothing EXCEPT !.log = TRUE])

TwoCategories ==
    (1 :> category_row("pay", "income", 1)) @@ (2 :> category_row("food", "expense", 2))

Confirms == {"yes", "no"}

(***************************************************************************)
(* Spec: the operations on accounts, categories, transactions and          *)
(* transfers, on a store that starts with the accounts x and y, the income *)
(* category pay and the expense category food.                             *)
(***************************************************************************)
Init == InitStore((1 :> account_row("x", 2)) @@ (2 :> account_row("y", 2)), TwoCategories)

UpdateAccount ==
    \E n \in AccountNames, ch \in 1..MaxAccounts, m \in {"", "y"}, b \in {<<>>, <<1>>} :
        update_account(n, ch, m, b)

DeleteAccount ==
    \E n \in AccountNames, ch \in 1..MaxAccounts : delete_account(n, ch, "yes")

ViewAccounts == view_accounts

DeleteCategory == \E n \in CategoryNames : delete_category(n)

AddTransaction ==
    \E ty \in {"income", "expense"}, n \in AccountNames, ch \in 1..MaxAccounts,
       c \in CategoryNames :
        /\ next_id.transaction <= MaxTransactions
        /\ add_transaction(ty, n, ch, c, 1, "cur", NoNotes)

TransferFunds ==
    \E s \in AccountNames, d \in AccountNames, sc \in 1..MaxAccounts, dc \in 1..MaxAccounts :
        /\ next_id.transaction + 1 <= MaxTransactions
        /\ transfer_funds(s, d, sc, dc, 1, "cur", "")

UpdateTransaction ==
    \E t \in DOMAIN db_transactions, c \in {""} \cup CategoryNames :
        update_transaction(t, 0, c, NoNotes, "")

DeleteTransaction ==
    \E t \in DOMAIN db_transactions, again \in Confirms : delete_transaction(t, "yes", again)

Next ==
    \/ UpdateAccount
    \/ DeleteAccount
    \/ ViewAccounts
    \/ DeleteCategory
    \/ AddTransaction
    \/ TransferFunds
    \/ UpdateTransaction
    \/ DeleteTransaction

Spec == Init /\ [][Next]_vars

(***************************************************************************)
(* SpecLedger: incomes and expenses on the one account x, with a budget on *)
(* the expense category and category renames; no operation edits a balance *)
(* directly.                                                               *)
(***************************************************************************)
LedgerInit == \E b \in Balances : InitStore(1 :> account_row("x", b), TwoCategories)

LedgerAddBudget ==
    \E n \in CategoryNames, l \in Limits :
        /\ next_id.budget <= MaxBudgets
        /\ add_budget(n, l)

LedgerAddTransaction ==
    \E ty \in {"income", "expense"}, c \in CategoryNames, a \in Amounts :
        /\ next_id.transaction <= MaxLedgerTransactions
        /\ add_transaction(ty, "x", 1, c, a, "cur", NoNotes)

LedgerDeleteTransaction ==
    \E t \in DOMAIN db_transactions, again \in Confirms : delete_transaction(t, "yes", again)

LedgerUpdateCategory == update_category("pay", "food")

LedgerNext ==
    \/ LedgerAddBudget
    \/ LedgerAddTransaction
    \/ LedgerDeleteTransaction
    \/ LedgerUpdateCategory
    \/ ViewAccounts

SpecLedger == LedgerInit /\ [][LedgerNext]_vars

(***************************************************************************)
(* SpecTransfer: transfers between the accounts x, y and z, their updates  *)
(* and their deletions.                                                    *)
(***************************************************************************)
TransferInit ==
    InitStore((1 :> account_row("x", 2)) @@ (2 :> account_row("y", 2))
                  @@ (3 :> account_row("z", 0)), Empty)

TransferCreate ==
    \E s \in TransferAccountNames, d \in TransferAccountNames, a \in TransferAmounts :
        /\ next_id.transaction + 1 <= MaxTransferRows
        /\ transfer_funds(s, d, 1, 1, a, "cur", "")

TransferUpdate ==
    \E t \in DOMAIN db_transactions, n \in Texts :
        update_transaction(t, 0, "", PlainNotes(n), "")

TransferDelete ==
    \E t \in DOMAIN db_transactions, again \in Confirms : delete_transaction(t, "yes", again)

TransferNext ==
    \/ TransferCreate
    \/ TransferUpdate
    \/ TransferDelete
    \/ ViewAccounts

SpecTransfer == TransferInit /\ [][TransferNext]_vars

(***************************************************************************)
(* SpecAccounts: account renames and deletions over accounts that hold     *)
(* incomes, expenses and transfer legs.                                    *)
(***************************************************************************)
AccountsAddTransaction ==
    \E ty \in {"income", "expense"}, n \in AccountNames, ch \in 1..MaxAccounts,
       c \in CategoryNames :
        /\ next_id.transaction <= MaxAccountRows
        /\ add_transaction(ty, n, ch, c, 1, "cur", NoNotes)

AccountsTransferFunds ==
    \E s \in AccountNames, d \in AccountNames, sc \in 1..MaxAccounts, dc \in 1..MaxAccounts :
        /\ next_id.transaction + 1 <= MaxAccountRows
        /\ transfer_funds(s, d, sc, dc, 1, "cur", "")

AccountsRename == \E n \in AccountNames, ch \in 1..MaxAccounts : update_account(n, ch, "y", <<>>)

AccountsNext ==
    \/ AccountsAddTransaction
    \/ AccountsTransferFunds
    \/ AccountsRename
    \/ DeleteAccount
    \/ ViewAccounts

SpecAccounts == Init /\ [][AccountsNext]_vars

(***************************************************************************)
(* SpecCreate: what is typed at the prompts of an income / expense         *)
(* creation, valid or not, on two accounts of the same name, with a budget *)
(* on the expense category.  Refusals are recorded.                        *)
(***************************************************************************)
CreateInit ==
    InitRecording((1 :> account_row("x", 2)) @@ (2 :> account_row("x", 1)), TwoCategories)

CreateAttempt ==
    \E ty \in CreateTypes, n \in CreateAccountNames, ch \in 1..MaxAccounts + 1,
       c \in CategoryNames, a \in CreateAmounts :
        /\ next_id.transaction <= MaxCreateRows
        /\ add_transaction(ty, n, ch, c, a, "cur", NoNotes)

CreateAddBudget ==
    \E n \in CategoryNames, l \in Limits :
        /\ next_id.budget <= MaxBudgets
        /\ add_budget(n, l)

CreateNext ==
    \/ CreateAttempt
    \/ CreateAddBudget
    \/ ViewAccounts

SpecCreate == CreateInit /\ [][CreateNext]_vars

(***************************************************************************)
(* SpecFunds: transfers of any amount between x and y, among expenses,     *)
(* deletions and direct balance edits that move the stored balances and    *)
(* the cached ones apart.  Refusals are recorded.                          *)
(***************************************************************************)
FundsInit ==
    InitRecording((1 :> account_row("x", 2)) @@ (2 :> account_row("y", 2)), TwoCategories)

FundsTransfer ==
    \E s \in AccountNames, d \in AccountNames, a \in FundsAmounts :
        /\ next_id.transaction + 1 <= MaxFundsRows
        /\ transfer_funds(s, d, 1, 1, a, "cur", "")

FundsExpense ==
    \E n \in AccountNames :
        /\ next_id.transaction <= MaxFundsRows
        /\ add_transaction("expense", n, 1, "food", 1, "cur", NoNotes)

FundsDelete ==
    \E t \in DOMAIN db_transactions, again \in Confirms : delete_transaction(t, "yes", again)

FundsUpdateAccount == \E n \in AccountNames : update_account(n, 1, "", <<1>>)

FundsNext ==
    \/ FundsTransfer
    \/ FundsExpense
    \/ FundsDelete
    \/ FundsUpdateAccount
    \/ ViewAccounts

SpecFunds == FundsInit /\ [][FundsNext]_vars

(***************************************************************************)
(* SpecCategories: category adds (with any role string and in either       *)
(* case), renames and deletes, budgets set on them and transactions        *)
(* created in them.  Refusals are recorded.                                *)
(***************************************************************************)
CategoriesInit == InitRecording(1 :> account_row("x", 2), TwoCategories)

CategoriesAdd ==
    \E n \in NewCategoryNames, ty \in CategoryTypes, collation \in Collations :
        /\ next_id.category <= MaxCategories
        /\ add_category(n, ty, collation)

CategoriesRename ==
    \E n \in {"pay"} \cup NewCategoryNames : update_category(n, "food")

CategoriesDelete == \E n \in CategoryNames \cup NewCategoryNames : delete_category(n)

CategoriesAddBudget ==
    \E n \in CategoryNames, l \in Limits :
        /\ next_id.budget <= MaxCategoryBudgets
        /\ add_budget(n, l)

CategoriesAddTransaction ==
    \E c \in CategoryNames :
        /\ next_id.transaction <= MaxCategoryRows
        /\ add_transaction("expense", "x", 1, c, 1, "cur", NoNotes)

CategoriesNext ==
    \/ CategoriesAdd
    \/ CategoriesRename
    \/ CategoriesDelete
    \/ CategoriesAddBudget
    \/ CategoriesAddTransaction

SpecCategories == CategoriesInit /\ [][CategoriesNext]_vars

(***************************************************************************)
(* SpecBudget: budgets set, updated and deleted on the expense categories  *)
(* food and rent, among expenses created and deleted on the account x,     *)
(* category renames and deletions and the deletion of the account.         *)
(* Refusals are recorded.                                                  *)
(***************************************************************************)
BudgetInit ==
    InitRecording(1 :> account_row("x", 2),
                  TwoCategories @@ (3 :> category_row("rent", "expense", 3)))

BudgetAdd ==
    \E n \in BudgetCategoryNames, l \in Limits :
        /\ next_id.budget <= MaxBudgetRows
        /\ add_budget(n, l)

BudgetUpdate == \E n \in BudgetCategoryNames, l \in NewLimits : update_budget(n, l)

BudgetDelete == \E n \in BudgetCategoryNames : delete_budget(n, "yes")

BudgetExpense ==
    \E c \in BudgetCategoryNames, a \in Amounts :
        /\ next_id.transaction <= MaxBudgetTransactions
        /\ add_transaction("expense", "x", 1, c, a, "cur", NoNotes)

BudgetDeleteTransaction == \E t \in DOMAIN db_transactions : delete_transaction(t, "yes", "yes")

BudgetRename == update_category("pay", "food")

BudgetDeleteCategory == delete_category("food")

BudgetDeleteAccount == delete_account("x", 1, "yes")

BudgetNext ==
    \/ BudgetAdd
    \/ BudgetUpdate
    \/ BudgetDelete
    \/ BudgetExpense
    \/ BudgetDeleteTransaction
    \/ BudgetRename
    \/ BudgetDeleteCategory
    \/ BudgetDeleteAccount

SpecBudget == BudgetInit /\ [][BudgetNext]_vars

(***************************************************************************)
(* SpecScenario: the account wallet, created with a balance of 200, and    *)
(* the expense category groceries; a budget of 150 is set on it, expenses  *)
(* of 60 and of 80 are created and deleted.  Refusals are recorded.        *)
(***************************************************************************)
ScenarioInit ==
    InitRecording(1 :> account_row("wallet", 200),
                  1 :> category_row("groceries", "expense", 1))

ScenarioAddBudget ==
    /\ next_id.budget <= MaxBudgets
    /\ add_budget("groceries", 150)

ScenarioExpense ==
    \E a \in ScenarioAmounts :
        /\ next_id.transaction <= MaxScenarioRows
        /\ add_transaction("expense", "wallet", 1, "groceries", a, "cur", NoNotes)

ScenarioDelete ==
    \E t \in DOMAIN db_transactions, again \in Confirms : delete_transaction(t, "yes", again)

ScenarioNext ==
    \/ ScenarioAddBudget
    \/ ScenarioExpense
    \/ ScenarioDelete

SpecScenario == ScenarioInit /\ [][ScenarioNext]_vars

(***************************************************************************)
(* SpecUpdate: updates of incomes and expenses on the account x, with an   *)
(* amount typed or left blank and a category typed (the name of a category *)
(* or of none) or left blank, with budgets on the expense categories food  *)
(* and rent.  Refusals are recorded.                                       *)
(***************************************************************************)
UpdateInit ==
    InitRecording(1 :> account_row("x", 2),
                  TwoCategories @@ (3 :> category_row("rent", "expense", 3)))

UpdateAddBudget ==
    \E n \in BudgetCategoryNames, l \in Limits :
        /\ next_id.budget <= MaxUpdateBudgets
        /\ add_budget(n, l)

UpdateAddTransaction ==
    \E ty \in {"income", "expense"}, c \in CategoryNames, a \in Amounts :
        /\ next_id.transaction <= MaxUpdateRows
        /\ add_transaction(ty, "x", 1, c, a, "cur", NoNotes)

UpdateAttempt ==
    \E t \in DOMAIN db_transactions, a \in EnteredAmounts, c \in UpdateCategoryNames :
        update_transaction(t, a, c, NoNotes, "")

UpdateNext ==
    \/ UpdateAddBudget
    \/ UpdateAddTransaction
    \/ UpdateAttempt

SpecUpdate == UpdateInit /\ [][UpdateNext]_vars

(***************************************************************************)
(* SpecFailure: transfers between x and y and incomes / expenses on them   *)
(* (no budget is set), where any of the store writes of the operation can  *)
(* fail.                                                                   *)
(***************************************************************************)
FailureTransfer ==
    \E s \in AccountNames, d \in AccountNames, failing \in SUBSET (1..4) :
        /\ next_id.transaction + 1 <= MaxFailureRows
        /\ transfer_funds_failing(s, d, 1, "cur", "", failing)

FailureAddTransaction ==
    \E ty \in {"income", "expense"}, n \in AccountNames, c \in CategoryNames,
       failing \in SUBSET (1..2) :
        /\ next_id.transaction <= MaxFailureRows
        /\ add_transaction_failing(ty, n, c, 1, "cur", failing)

FailureNext ==
    \/ FailureTransfer
    \/ FailureAddTransaction
    \/ ViewAccounts

SpecFailure == Init /\ [][FailureNext]_vars

(***************************************************************************)
(* SpecDates: expenses of the categories food and rent on the account x,   *)
(* dated in the current month ("cur") or in another one ("old"), and       *)
(* budgets set on the two categories before or after them.                 *)
(***************************************************************************)
DatesInit ==
    InitRecording(1 :> account_row("x", 6),
                  TwoCategories @@ (3 :> category_row("rent", "expense", 3)))

DatesAddBudget ==
    \E n \in BudgetCategoryNames, l \in Limits :
        /\ next_id.budget <= MaxDatesBudgets
        /\ add_budget(n, l)

DatesExpense ==
    \E c \in BudgetCategoryNames, a \in Amounts, d \in Dates :
        /\ next_id.transaction <= MaxDatesRows
        /\ add_transaction("expense", "x", 1, c, a, d, NoNotes)

DatesNext ==
    \/ DatesAddBudget
    \/ DatesExpense

SpecDates == DatesInit /\ [][DatesNext]_vars

(***************************************************************************)
(* SpecFrame: transfers between the accounts x and y created, updated and  *)
(* deleted next to expenses of the category food and a budget on it.       *)
(***************************************************************************)
FrameAddBudget ==
    \E l \in Limits :
        /\ next_id.budget <= MaxBudgets
        /\ add_budget("food", l)

FrameExpense ==
    \E n \in AccountNames, a \in Amounts :
        /\ next_id.transaction <= MaxFrameRows
        /\ add_transaction("expense", n, 1, "food", a, "cur", NoNotes)

FrameTransfer ==
    \E s \in AccountNames, d \in AccountNames, a \in Amounts :
        /\ next_id.transaction + 1 <= MaxFrameRows
        /\ transfer_funds(s, d, 1, 1, a, "cur", "")

FrameUpdate ==
    \E t \in DOMAIN db_transactions, n \in Texts :
        /\ db_transactions[t].transaction_type = "Transfer"
        /\ update_transaction(t, 0, "", PlainNotes(n), "")

FrameDelete ==
    \E t \in DOMAIN db_transactions : delete_transaction(t, "yes", "yes")

FrameNext ==
    \/ FrameAddBudget
    \/ FrameExpense
    \/ FrameTransfer
    \/ FrameUpdate
    \/ FrameDelete
    \/ ViewAccounts

SpecFrame == Init /\ [][FrameNext]_vars

(***************************************************************************)
(* SpecCascade: incomes and expenses created on the account x, with        *)
(* a budget on the category food, where each of the writes of a creation   *)
(* (the INSERT, the UPDATE of the balance, the UPDATE of the spent) can    *)
(* fail.                                                                   *)
(***************************************************************************)
CascadeAddBudget ==
    \E l \in Limits :
        /\ next_id.budget <= MaxBudgets
        /\ add_budget("food", l)

CascadeAddTransaction ==
    \E ty \in {"income", "expense"}, c \in CategoryNames, a \in Amounts,
       failing \in SUBSET (1..3) :
        /\ next_id.transaction <= MaxCascadeRows
        /\ add_transaction_failing(ty, "x", c, a, "cur", failing)

CascadeNext ==
    \/ CascadeAddBudget
    \/ CascadeAddTransaction
    \/ ViewAccounts

SpecCascade == Init /\ [][CascadeNext]_vars

(***************************************************************************)
(* SpecParties: transfers created, updated (with an amount typed or left   *)
(* blank) and deleted between the account x and two accounts that are both *)
(* named y.                                                                *)
(***************************************************************************)
PartiesInit ==
    InitStore((1 :> account_row("x", 2)) @@ (2 :> account_row("y", 2))
                  @@ (3 :> account_row("y", 2)), Empty)

PartiesTransfer ==
    \E s \in AccountNames, d \in AccountNames, sc \in Choices, dc \in Choices, a \in Amounts :
        /\ next_id.transaction + 1 <= MaxPartiesRows
        /\ transfer_funds(s, d, sc, dc, a, "cur", "")

PartiesUpdate ==
    \E t \in DOMAIN db_transactions, a \in EnteredAmounts, n \in Texts :
        update_transaction(t, a, "", PlainNotes(n), "")

PartiesDelete ==
    \E t \in DOMAIN db_transactions, again \in Confirms : delete_transaction(t, "yes", again)

PartiesNext ==
    \/ PartiesTransfer
    \/ PartiesUpdate
    \/ PartiesDelete
    \/ ViewAccounts

SpecParties == PartiesInit /\ [][PartiesNext]_vars

(***************************************************************************)
(* Properties.  A step is recognised by what it leaves in the ghost record *)
(* and by the row it adds or removes.                                      *)
(***************************************************************************)
\* This step commits the creation of an income or expense row.
Created(type) ==
    /\ last'.op = "add_transaction"
    /\ last'.type = type
    /\ last'.txn = next_id.transaction
    /\ next_id'.transaction = next_id.transaction + 1

\* This step commits the deletion of a row of the type.
Deleted(type) ==
    /\ last'.op = "delete_transaction"
    /\ last'.type = type
    /\ last'.txn \in DOMAIN db_transactions
    /\ last'.txn \notin DOMAIN db_transactions'

\* The stored balance of an account in an accounts table, and the spent of
\* the budget of a category in a budgets table, as Balance and Spent read them
\* off the store.
BalanceIn(table, account_id) ==
    IF account_id \in DOMAIN table THEN table[account_id].initial_balance ELSE 0

SpentIn(table, category_id) ==
    LET rows == {b \in DOMAIN table : table[b].category_id = category_id}
    IN  IF rows = {} THEN 0 ELSE table[MaxOf(rows)].spent

\* The sum of the amounts of the account's rows of a type.
SumOfType(account_id, type) ==
    LET rows == {t \in DOMAIN db_transactions :
                    /\ db_transactions[t].account_id = account_id
                    /\ db_transactions[t].transaction_type = type}
    IN  SumOver(rows, [t \in rows |-> db_transactions[t].amount])

\* C1: under incomes and expenses created and deleted on one account, with no
\* direct balance edit, the stored balance is the balance the account was
\* created with, plus the amounts of its Income rows, minus the amounts of
\* its Expense rows.
C1_BalanceIsLedgerSum ==
    \A a \in DOMAIN db_accounts :
        Balance(a) = opening[a] + SumOfType(a, "Income") - SumOfType(a, "Expense")

\* C1 witness: a deletion has run and the account holds an Income row and an
\* Expense row.
C1_Witness ==
    /\ last.op = "delete_transaction"
    /\ SumOfType(1, "Income") > 0
    /\ SumOfType(1, "Expense") > 0

\* C2: an expense is created only when its amount is at most the stored
\* balance of the account and that balance is positive (an expense above the
\* stored balance, or on a balance <= 0, is rejected and changes nothing).
C2_OverdrawingExpenseRejected ==
    [][Created("Expense") =>
          /\ Balance(last'.acct) > 0
          /\ last'.amt <= Balance(last'.acct)]_vars

\* This step commits a transfer: it adds the two rows last'.txn and last'.txn + 1.
Transferred ==
    /\ last'.op = "transfer_funds"
    /\ last'.txn = next_id.transaction
    /\ next_id'.transaction = next_id.transaction + 2

\* C3: a committed transfer of A from X to Y takes A from the stored balance
\* of X, adds A to the stored balance of Y, adds exactly two rows of type
\* Transfer, one on X with amount -A and one on Y with amount +A (summing to
\* zero), and changes no other account.
C3_TransferMovesAmount ==
    [][Transferred =>
          LET X == last'.acct
              Y == last'.other
              A == last'.amt
              debit == last'.txn
              credit == last'.txn + 1
          IN  /\ X # Y
              /\ BalanceIn(db_accounts', X) = Balance(X) - A
              /\ BalanceIn(db_accounts', Y) = Balance(Y) + A
              /\ DOMAIN db_accounts' = DOMAIN db_accounts
              /\ \A a \in DOMAIN db_accounts \ {X, Y} : db_accounts'[a] = db_accounts[a]
              /\ {debit, credit} \cap DOMAIN db_transactions = {}
              /\ DOMAIN db_transactions' = DOMAIN db_transactions \cup {debit, credit}
              /\ \A t \in DOMAIN db_transactions : db_transactions'[t] = db_transactions[t]
              /\ db_transactions'[debit].transaction_type = "Transfer"
              /\ db_transactions'[debit].account_id = X
              /\ db_transactions'[debit].amount = 0 - A
              /\ db_transactions'[credit].transaction_type = "Transfer"
              /\ db_transactions'[credit].account_id = Y
              /\ db_transactions'[credit].amount = A
              /\ db_transactions'[debit].amount + db_transactions'[credit].amount = 0]_vars

\* C3 witness: a transfer has just been committed, beside an account that is
\* neither its source nor its destination and beside an earlier transfer.
C3_Witness ==
    /\ last.op = "transfer_funds"
    /\ last.txn > 1
    /\ DOMAIN db_accounts \ {last.acct, last.other} # {}
    /\ {last.txn, last.txn + 1} \subseteq DOMAIN db_transactions

\* The debit row and the credit row of the transfer a Transfer row belongs to.
debit_leg(t) ==
    IF db_transactions[t].notes.kind = "to" THEN t ELSE db_transactions[t].g_pair

\* (the credit row)
credit_leg(t) ==
    IF db_transactions[t].notes.kind = "to" THEN db_transactions[t].g_pair ELSE t

\* C4: deleting a transfer of a positive amount whose two rows exist, through
\* its debit row or through its credit row, gives the amount back to the
\* source account, takes it from the destination account (both balances are
\* as before the transfer) and removes both rows.
C4_TransferDeleteReverses ==
    [][(/\ Deleted("Transfer")
        /\ db_transactions[last'.txn].g_pair \in DOMAIN db_transactions
        /\ db_transactions[credit_leg(last'.txn)].amount > 0) =>
          LET debit == debit_leg(last'.txn)
              credit == credit_leg(last'.txn)
              X == db_transactions[debit].account_id
              Y == db_transactions[credit].account_id
              A == db_transactions[credit].amount
          IN  /\ BalanceIn(db_accounts', X) = Balance(X) + A
              /\ BalanceIn(db_accounts', Y) = Balance(Y) - A
              /\ debit \notin DOMAIN db_transactions'
              /\ credit \notin DOMAIN db_transactions']_vars

\* C5: every expense created on an expense category that has a budget adds
\* its amount to the budget's spent (so after N of them spent is the seed
\* plus their sum), and deleting an expense of the category takes exactly
\* its amount off again.
C5_SpentFollowsExpenses ==
    [][/\ (Created("Expense") /\ HasBudget(last'.cat)) =>
              SpentIn(db_budgets', last'.cat) = Spent(last'.cat) + last'.amt
       /\ (Deleted("Expense") /\ HasBudget(last'.cat)) =>
              SpentIn(db_budgets', last'.cat) = Spent(last'.cat) - last'.amt]_vars

\* The alert the budget rules ask for.
claimed_alert(monthly_limit, spent) ==
    IF spent > monthly_limit THEN "exceeded"
    ELSE IF 10 * spent >= 9 * monthly_limit THEN "nearing"
    ELSE "none"

C7_DeleteThenCreateRestores ==
    [][(/\ last.op = "delete_transaction"
        /\ last.type \in {"Income", "Expense"}
        /\ Created(last.type)
        /\ last'.acct = last.acct
        /\ last'.cat = last.cat
        /\ last'.amt = last.amt) =>
          /\ BalanceIn(db_accounts', last.acct) = last.bal
          /\ SpentIn(db_budgets', last.cat) = last.spent]_vars

\* C7 witness: an expense of a budgeted category was deleted and has just
\* been created again.
C7_Witness ==
    /\ last.op = "add_transaction"
    /\ last.redo
    /\ last.type = "Expense"
    /\ HasBudget(last.cat)
    /\ last.budget # 0

\* C8: after a confirmed account deletion the account row is gone and no
\* transaction row references the deleted account id.
C8_DeletedAccountLeavesNoRows ==
    (last.op = "delete_account" /\ last.ok) =>
        /\ last.acct \notin DOMAIN db_accounts
        /\ \A t \in DOMAIN db_transactions : db_transactions[t].account_id # last.acct

\* C8 witness: an account has just been deleted together with rows of its own,
\* and rows of another account are still stored.
C8_Witness ==
    /\ last.op = "delete_account"
    /\ last.ok
    /\ last.amt > 0
    /\ db_transactions # Empty

\* The signed sum of the rows that reference an account: Income +, Expense -,
\* a transfer leg by its stored sign (debit -, credit +).
signed_amount(row) ==
    IF row.transaction_type = "Expense" THEN 0 - row.amount ELSE row.amount

signed_sum(account_id) ==
    LET rows == {t \in DOMAIN db_transactions :
                    db_transactions[t].account_id = account_id}
    IN  SumOver(rows, [t \in rows |-> signed_amount(db_transactions[t])])

\* C9: in every reachable state the stored balance of each account is the
\* balance it was created with plus the signed sum of the rows that
\* reference it.
C9_BalanceIsRunningSum ==
    \A a \in DOMAIN db_accounts : Balance(a) = opening[a] + signed_sum(a)

\* The credit rows that match a debit row: Transfer rows on the account the
\* debit row names, naming the debit row's account, of the opposite amount.
matching_credits(debit) ==
    {c \in DOMAIN db_transactions :
        /\ db_transactions[c].transaction_type = "Transfer"
        /\ db_transactions[c].notes.kind = "from"
        /\ db_transactions[c].notes.name = joined_account_name(db_transactions[debit])
        /\ account_id_to_name(db_accounts, db_transactions[c].account_id)
               = db_transactions[debit].notes.name
        /\ db_transactions[c].amount = 0 - db_transactions[debit].amount}

\* C10: in every reachable state every transfer debit row has exactly one
\* matching credit row, of the same magnitude and the opposite sign.
C10_EveryDebitHasOneCredit ==
    \A d \in DOMAIN db_transactions :
        (/\ db_transactions[d].transaction_type = "Transfer"
         /\ db_transactions[d].notes.kind = "to") =>
            /\ Cardinality(matching_credits(d)) = 1
            /\ db_transactions[d].g_pair \in matching_credits(d)

\* This step is an operation whose prompts were recorded: it was refused
\* (last'.ok is FALSE and nothing else changed) or it committed.
Attempted(op) ==
    /\ last'.log
    /\ last'.op = op
    /\ last' # last

\* The operations that create, update or delete a transaction or a transfer.
LedgerOperations ==
    {"add_transaction", "update_transaction", "update_transfer_funds",
     "delete_transaction", "transfer_funds"}

\* C11: the stored balance of an account that exists changes only in a step
\* that creates, updates or deletes a transaction or a transfer; no operation
\* of the account store sets or adjusts it.
C11_BalanceChangesOnlyByLedger ==
    [][\A a \in DOMAIN db_accounts \cap DOMAIN db_accounts' :
          db_accounts'[a].initial_balance # db_accounts[a].initial_balance
              => last'.op \in LedgerOperations]_vars

\* The account the name and the index typed at the prompts select among the
\* stored accounts (0: none).
selected_account(inputs) ==
    select_account(search_accounts(db_accounts, inputs.name), inputs.choice)

\* The validation steps of an income / expense creation, as the claim lists
\* them, on what was typed and on the stored state before the step.
fails_validation(inputs) ==
    \/ inputs.type \notin {"income", "expense", "transfer"}
    \/ search_accounts(db_accounts, inputs.name) = <<>>
    \/ selected_account(inputs) = 0
    \/ ~\E c \in DOMAIN db_categories :
           /\ db_categories[c].role = inputs.type
           /\ lower(db_categories[c].category_name) = lower(inputs.category)
    \/ inputs.amount <= 0
    \/ /\ inputs.type = "expense"
       /\ Balance(selected_account(inputs)) < inputs.amount

\* C12: an income / expense creation that fails a validation step (type,
\* unknown account, invalid account index, category not in the role of the
\* type, invalid amount, expense above the stored balance) is rejected: the
\* transaction rows, the account balances and the budgets are unchanged.
C12_InvalidCreationRejected ==
    [][(Attempted("add_transaction") /\ fails_validation(last'.inputs)) =>
          /\ ~last'.ok
          /\ UNCHANGED <<db_transactions, db_accounts, db_budgets>>]_vars

\* C13: a transfer is committed only with an amount > 0 (a transfer of a zero
\* or negative amount inserts no row and changes no balance).
C13_TransferAmountPositive ==
    [][Transferred => last'.amt > 0]_vars

\* C14: a transfer whose amount exceeds the balance of the source account as
\* the store holds it when the transfer is requested is rejected: no row is
\* inserted and no balance changes, whatever the account cache holds.
C14_TransferAboveStoredBalanceRejected ==
    [][(/\ Attempted("transfer_funds")
        /\ selected_account(last'.inputs) # 0
        /\ last'.inputs.amount > Balance(selected_account(last'.inputs))) =>
          /\ ~last'.ok
          /\ UNCHANGED <<db_transactions, db_accounts>>]_vars

\* C14 witness: a transfer between two accounts, of a positive amount that
\* the cached balance of the source covers and its stored balance does not,
\* has just been refused.
C14_Witness ==
    /\ last.op = "transfer_funds"
    /\ ~last.ok
    /\ last.inputs.name # last.inputs.other
    /\ last.inputs.amount > 0
    /\ selected_account(last.inputs) \in DOMAIN accounts
    /\ accounts[selected_account(last.inputs)].initial_balance >= last.inputs.amount
    /\ Balance(selected_account(last.inputs)) < last.inputs.amount

\* C15: setting a budget for a name that is no expense category fails, and
\* every budget row references a category that exists and is an expense
\* category.
C15_BudgetsOnExpenseCategories ==
    /\ [](\A b \in DOMAIN db_budgets :
             /\ db_budgets[b].category_id \in DOMAIN db_categories
             /\ db_categories[db_budgets[b].category_id].role = "expense")
    /\ [][(/\ Attempted("add_budget")
           /\ ~\E c \in DOMAIN db_categories :
                  /\ db_categories[c].role = "expense"
                  /\ lower(db_categories[c].category_name) = lower(last'.inputs.category)) =>
             /\ ~last'.ok
             /\ UNCHANGED db_budgets]_vars

\* C16: no two budget rows reference the same category.
C16_OneBudgetPerCategory ==
    \A b1 \in DOMAIN db_budgets, b2 \in DOMAIN db_budgets :
        db_budgets[b1].category_id = db_budgets[b2].category_id => b1 = b2

\* C17: every category row is registered in exactly one role, income or
\* expense.
C17_EveryCategoryHasOneRole ==
    \A c \in DOMAIN db_categories : db_categories[c].role \in {"income", "expense"}

\* C18: no two categories of the same role have the same name, compared
\* case-insensitively.
C18_NamesUniqueWithinRole ==
    \A c1 \in DOMAIN db_categories, c2 \in DOMAIN db_categories :
        (/\ db_categories[c1].role \in {"income", "expense"}
         /\ db_categories[c1].role = db_categories[c2].role
         /\ lower(db_categories[c1].category_name) = lower(db_categories[c2].category_name))
            => c1 = c2

\* C19: adding a category whose name is, case-insensitively, the name of an
\* income category or of an expense category fails and leaves the categories
\* as they are, whatever role is requested.
C19_DuplicateCategoryRefused ==
    [][(/\ Attempted("add_category")
        /\ \E c \in DOMAIN db_categories :
               /\ db_categories[c].role \in {"income", "expense"}
               /\ lower(db_categories[c].category_name) = lower(last'.inputs.name)) =>
          /\ ~last'.ok
          /\ UNCHANGED db_categories]_vars

\* C19 witness: the add of Food has just been refused (no row was inserted)
\* beside a category stored as food.
C19_Witness ==
    /\ last.op = "add_category"
    /\ last.txn = 0
    /\ last.inputs.name = "Food"
    /\ \E c \in DOMAIN db_categories :
           /\ db_categories[c].category_name = "food"
           /\ db_categories[c].role \in {"income", "expense"}

\* C20: the step that deletes an expense category leaves no budget row and no
\* transaction row that references it, removes its row, and no lookup of the
\* reloaded category cache gives it.
C20_DeletedExpenseCategoryLeavesNoRows ==
    [][(/\ last'.op = "delete_category"
        /\ last'.type = "expense"
        /\ last'.cat \in DOMAIN db_categories) =>
          LET c == last'.cat
          IN  /\ c \notin DOMAIN db_categories'
              /\ \A b \in DOMAIN db_budgets' : db_budgets'[b].category_id # c
              /\ \A t \in DOMAIN db_transactions' : db_transactions'[t].category_id # c
              /\ \A n \in CategoryNames \cup NewCategoryNames :
                     /\ get_category_id_by_name(n)' # c
                     /\ matching_categories("expense", n)' # c]_vars

\* C20 witness: an expense category has just been deleted with a budget and
\* a transaction that referenced it.
C20_Witness ==
    /\ last.op = "delete_category"
    /\ last.type = "expense"
    /\ last.amt > 0
    /\ last.budget > 0

\* C21: a budget operation on a category that has no budget row (a limit
\* update or a delete by name; the spent delta of an expense created or
\* deleted in the category, which the operation looks up by the name of the
\* category) changes no budget row and creates none, and the expense that
\* triggered it is still created or deleted with its balance change.
C21_NoBudgetNoBudgetChange ==
    [][/\ (/\ Attempted("update_budget") \/ Attempted("delete_budget")
           /\ ~HasBudget(get_category_id_by_name(last'.inputs.category))) =>
              /\ ~last'.ok
              /\ UNCHANGED db_budgets
       /\ (/\ Created("Expense")
           /\ ~HasBudget(get_category_id_by_name(last'.inputs.category))) =>
              /\ UNCHANGED db_budgets
              /\ last'.txn \in DOMAIN db_transactions'
              /\ BalanceIn(db_accounts', last'.acct) = Balance(last'.acct) - last'.amt
       /\ (/\ Deleted("Expense")
           /\ ~HasBudget(get_category_id_by_name(
                             joined_category_name(db_transactions[last'.txn])))) =>
              /\ UNCHANGED db_budgets
              /\ BalanceIn(db_accounts', last'.acct) = Balance(last'.acct) + last'.amt]_vars

\* C21 witness: an expense has just been created in a category that has no
\* budget, beside the budget of another category, with a spent of its own.
C21_Witness ==
    /\ last.op = "add_transaction"
    /\ last.type = "Expense"
    /\ last.txn \in DOMAIN db_transactions
    /\ last.budget = 0
    /\ ~HasBudget(last.cat)
    /\ \E b \in DOMAIN db_budgets : db_budgets[b].spent > 0

\* The account the name and the index typed at the prompts select in the
\* cache of accounts (0: none).
cached_account(inputs) ==
    select_account(search_accounts(accounts, inputs.name), inputs.choice)

\* An expense creation passes the checks of the operation: an account is
\* selected, the name is the name of an expense category, the amount is
\* positive and the balance the operation reads covers it.
passes_checks(inputs) ==
    /\ inputs.type = "expense"
    /\ cached_account(inputs) # 0
    /\ \E c \in DOMAIN db_categories :
           /\ db_categories[c].role = "expense"
           /\ lower(db_categories[c].category_name) = lower(inputs.category)
    /\ inputs.amount > 0
    /\ accounts[cached_account(inputs)].initial_balance >= inputs.amount

\* C22: the threshold check is advisory.  An expense that passes the checks
\* of the creation is committed whatever its budget says: the row is
\* persisted, the balance is decremented by the amount and the spent of the
\* budget found for the category is increased by it, also when that brings
\* the spent to 90% of the limit or above the limit.
C22_ThresholdsAreAdvisory ==
    [][(Attempted("add_transaction") /\ passes_checks(last'.inputs)) =>
          /\ last'.ok
          /\ last'.txn \in DOMAIN db_transactions' \ DOMAIN db_transactions
          /\ db_transactions'[last'.txn].amount = last'.inputs.amount
          /\ BalanceIn(db_accounts', last'.acct) = Balance(last'.acct) - last'.inputs.amount
          /\ last'.budget \in DOMAIN db_budgets =>
                db_budgets'[last'.budget].spent =
                    db_budgets[last'.budget].spent + last'.inputs.amount]_vars

\* C22 witness: an expense that the stored balance covered has just been
\* committed and has brought the spent of its budget above the limit.
C22_Witness ==
    /\ last.op = "add_transaction"
    /\ last.ok
    /\ last.type = "Expense"
    /\ last.bal >= last.amt
    /\ last.budget \in DOMAIN db_budgets
    /\ db_budgets[last.budget].spent > db_budgets[last.budget].monthly_limit
    /\ last.alert # "none"

\* C23: with every transaction dated in the current month, the spent of each
\* budget is the sum of the amounts of the Expense rows of its category that
\* exist.
C23_SpentIsSumOfExpenses ==
    \A b \in DOMAIN db_budgets : db_budgets[b].spent = total_spent(db_budgets[b].category_id)

\* The store of the scenario: the account holds the balance, the category
\* has the one budget of limit 150 with the spent, and the rows are Expense
\* rows of the category with the amounts (one row per amount).
scenario_store(table, budget_table, rows, balance, spent, amounts) ==
    /\ BalanceIn(table, 1) = balance
    /\ DOMAIN budget_table = {1}
    /\ budget_table[1] = [category_id |-> 1, monthly_limit |-> 150, spent |-> spent]
    /\ Cardinality(DOMAIN rows) = Cardinality(amounts)
    /\ \A a \in amounts : \E t \in DOMAIN rows :
           /\ rows[t].amount = a
           /\ rows[t].transaction_type = "Expense"
           /\ rows[t].category_id = 1
           /\ rows[t].account_id = 1

\* C25: with a balance of 200 and a budget of limit 150 and spent 0, an
\* expense of 60 leaves balance 140 and spent 60 with no alert; then an
\* expense of 80 leaves balance 60 and spent 140 with the alert "nearing";
\* then the deletion of the expense of 80 leaves balance 140 and spent 60.
C25_Scenario ==
    [][/\ (/\ scenario_store(db_accounts, db_budgets, db_transactions, 200, 0, {})
           /\ Attempted("add_transaction")
           /\ last'.inputs.amount = 60) =>
              /\ last'.ok
              /\ scenario_store(db_accounts', db_budgets', db_transactions', 140, 60, {60})
              /\ last'.alert = "none"
       /\ (/\ scenario_store(db_accounts, db_budgets, db_transactions, 140, 60, {60})
           /\ Attempted("add_transaction")
           /\ last'.inputs.amount = 80) =>
              /\ last'.ok
              /\ scenario_store(db_accounts', db_budgets', db_transactions', 60, 140, {60, 80})
              /\ last'.alert = "nearing"
       /\ (/\ scenario_store(db_accounts, db_budgets, db_transactions, 60, 140, {60, 80})
           /\ Deleted("Expense")
           /\ last'.amt = 80) =>
              scenario_store(db_accounts', db_budgets', db_transactions', 140, 60, {60})]_vars

\* C25 witness: the expense of 80 has just been deleted, which leaves the
\* expense of 60 with balance 140 and spent 60; the expense of 80 was the
\* second row created.
C25_Witness ==
    /\ last.op = "delete_transaction"
    /\ last.type = "Expense"
    /\ last.amt = 80
    /\ last.txn = 2
    /\ last.bal = 60
    /\ last.spent = 140
    /\ next_id.transaction = 3
    /\ scenario_store(db_accounts, db_budgets, db_transactions, 140, 60, {60})

\* The row an update was asked for, before the step.
updated_row == db_transactions[last'.inputs.txn]

\* This step is an update of an Income or Expense row (type), committed or
\* refused.
UpdateOf(type) ==
    /\ Attempted("update_transaction")
    /\ last'.inputs.txn \in DOMAIN db_transactions
    /\ updated_row.transaction_type = type

\* C26: an update of an expense with a newly supplied amount, the category
\* left as it is, persists the row with the new amount, changes the stored
\* balance by old - new and the spent of the budget of the category by
\* new - old; for an income the balance changes by new - old.
C26_UpdateAppliesNewAmount ==
    [][\A type \in {"Income", "Expense"} :
          (/\ UpdateOf(type)
           /\ last'.inputs.amount # 0
           /\ last'.inputs.category = "") =>
              LET t == last'.inputs.txn
                  old == updated_row.amount
                  new == last'.inputs.amount
                  a == updated_row.account_id
                  c == updated_row.category_id
              IN  /\ db_transactions'[t].amount = new
                  /\ BalanceIn(db_accounts', a) =
                        Balance(a) + (IF type = "Expense" THEN old - new ELSE new - old)
                  /\ type = "Expense" => SpentIn(db_budgets', c) = Spent(c) + new - old]_vars

\* The amount an update asks for: the amount typed, or the amount of the row
\* when the prompt is left blank.
asked_amount == IF last'.inputs.amount = 0 THEN updated_row.amount ELSE last'.inputs.amount

\* C27: an update of an expense that changes its category from C1 to C2
\* subtracts the old amount from the spent of the budget of C1, adds the new
\* amount to the spent of the budget of C2 and leaves every other budget as
\* it is; an update that names a category that does not resolve is rejected
\* and changes no row, no balance and no budget.
C27_CategoryChangeMovesSpent ==
    [][UpdateOf("Expense") =>
          LET C1 == updated_row.category_id
              C2 == get_category_id_by_name(last'.inputs.category)
          IN  /\ (last'.inputs.category # "" /\ C2 = 0) =>
                    /\ ~last'.ok
                    /\ UNCHANGED <<db_transactions, db_accounts, db_budgets>>
              /\ (C2 # 0 /\ C2 # C1) =>
                    /\ db_transactions'[last'.inputs.txn].category_id = C2
                    /\ DOMAIN db_budgets' = DOMAIN db_budgets
                    /\ \A b \in DOMAIN db_budgets :
                          db_budgets'[b] =
                             [db_budgets[b] EXCEPT !.spent =
                                 IF db_budgets[b].category_id = C1
                                 THEN @ - updated_row.amount
                                 ELSE IF db_budgets[b].category_id = C2
                                 THEN @ + asked_amount
                                 ELSE @]]_vars

\* C24: when a store write of a ledger operation fails, the operation
\* aborts: it reports failure, no write issued after the failed one is
\* applied, and when the first write is the one that fails the rows and the
\* balances are as they were.
C24_FailedWriteAborts ==
    [][(last'.failed # {} /\ last' # last) =>
          /\ ~last'.ok
          /\ \A w \in last'.written : w < MinOf(last'.failed)
          /\ 1 \in last'.failed => UNCHANGED <<db_transactions, db_accounts>>]_vars

\* C28: an Income row whose removal takes the stored balance of its account
\* below zero is deleted only after a second confirmation: a deletion where
\* the second confirmation is declined leaves the balance and the row as
\* they are, after any sequence of operations.
C28_NegativeBalanceNeedsSecondConfirmation ==
    [][\A t \in DOMAIN db_transactions :
          (/\ db_transactions[t].transaction_type = "Income"
           /\ Balance(db_transactions[t].account_id) - db_transactions[t].amount < 0
           /\ delete_transaction(t, "yes", "no")) =>
              UNCHANGED <<db_accounts, db_transactions>>]_vars

\* C29: a transfer update whose notes prompt is left blank (as are the
\* amount and the date) rewrites no notes: every row, the two legs
\* included, keeps its notes, the prefix and the text after it.
C29_BlankNotesKeepNotes ==
    [][\A t \in DOMAIN db_transactions :
          (/\ db_transactions[t].transaction_type = "Transfer"
           /\ update_transaction(t, 0, "", NoNotes, "")) =>
              \A r \in DOMAIN db_transactions :
                  /\ r \in DOMAIN db_transactions'
                  /\ db_transactions'[r].notes = db_transactions[r].notes]_vars

\* The magnitude of a signed amount.
magnitude(amount) == IF amount < 0 THEN 0 - amount ELSE amount

\* C30: the deletion of a transfer from X to Y removes the rows by account
\* and notes prefix: every row on X whose notes start with "Transfer to <Y>"
\* and every row on Y whose notes start with "Transfer from <X>" is removed
\* (the legs of every transfer from X to Y) and no other row is, while the
\* balances of X and Y are reversed for the amount of the selected transfer
\* only: X gets the amount back and Y gives it back.
C30_TransferDeleteByPrefix ==
    [][Deleted("Transfer") =>
          LET X == last'.acct
              Y == last'.other
              amount == magnitude(db_transactions[last'.txn].amount)
              legs == like_rows(X, "to", account_id_to_name(db_accounts, Y))
                          \cup like_rows(Y, "from", account_id_to_name(db_accounts, X))
          IN  /\ last'.txn \in legs
              /\ DOMAIN db_transactions' = DOMAIN db_transactions \ legs
              /\ BalanceIn(db_accounts', X) = Balance(X) + amount
              /\ BalanceIn(db_accounts', Y) = Balance(Y) - amount]_vars


\* This step sets a budget: it adds the budgets row last'.budget on the
\* category last'.cat.
BudgetSet ==
    /\ last'.op = "add_budget"
    /\ last'.ok
    /\ last'.budget = next_id.budget
    /\ next_id'.budget = next_id.budget + 1

\* The amounts of the Expense rows of a category dated in a month, summed.
ExpensesOfMonth(rows, category_id, month) ==
    LET of_month == {t \in DOMAIN rows :
                        /\ rows[t].category_id = category_id
                        /\ rows[t].transaction_type = "Expense"
                        /\ rows[t].date = month}
    IN  SumOver(of_month, [t \in of_month |-> rows[t].amount])

\* C31: a budget set on an expense category starts with a spent equal to the
\* sum of the amounts of the category's Expense rows dated in the current
\* month; the rows dated in another month are not counted.
C31_BudgetSeededFromCurrentMonth ==
    [][BudgetSet =>
          /\ last'.budget \in DOMAIN db_budgets'
          /\ db_budgets'[last'.budget].category_id = last'.cat
          /\ db_budgets'[last'.budget].spent =
                 ExpensesOfMonth(db_transactions, last'.cat, "cur")]_vars

\* C31 witness: a budget has just been set on a category that holds an
\* expense of the current month and one of another month, and it counts the
\* first only.
C31_Witness ==
    /\ last.op = "add_budget"
    /\ last.ok
    /\ ExpensesOfMonth(db_transactions, last.cat, "cur") > 0
    /\ ExpensesOfMonth(db_transactions, last.cat, "old") > 0
    /\ db_budgets[last.budget].spent = ExpensesOfMonth(db_transactions, last.cat, "cur")


\* C32: under transaction creates and updates every Income row references a
\* category registered as an income category, and every Expense row one
\* registered as an expense category.
C32_CategoryRoleMatchesType ==
    \A t \in DOMAIN db_transactions :
        LET row == db_transactions[t]
            registered(role) == /\ row.category_id \in DOMAIN db_categories
                                /\ db_categories[row.category_id].role = role
        IN  /\ row.transaction_type = "Income" => registered("income")
            /\ row.transaction_type = "Expense" => registered("expense")


\* This step is a transfer created, updated or deleted.
TransferStep ==
    \/ last'.op \in {"transfer_funds", "update_transfer_funds"}
    \/ last'.op = "delete_transaction" /\ last'.type = "Transfer"

\* C33: a transfer created, updated or deleted leaves every category and
\* every budget (limit and spent) as it was, and no Transfer row references
\* a category.
C33_TransfersLeaveBudgetsAlone ==
    /\ [](\A t \in DOMAIN db_transactions :
              db_transactions[t].transaction_type = "Transfer" =>
                  db_transactions[t].category_id = 0)
    /\ [][TransferStep =>
              /\ db_categories' = db_categories
              /\ db_budgets' = db_budgets
              /\ budgets' = budgets]_vars

\* C33 witness: a transfer has been updated while the budget of food holds
\* a spent above 0.
C33_Witness ==
    /\ last.op = "update_transfer_funds"
    /\ \E b \in DOMAIN db_budgets : db_budgets[b].spent > 0
    /\ \E t \in DOMAIN db_transactions : db_transactions[t].transaction_type = "Transfer"

\* C33 witness of the deletion: a transfer has been deleted in the same
\* situation.
C33_DeleteReached ==
    /\ last.op = "delete_transaction"
    /\ last.type = "Transfer"
    /\ \E b \in DOMAIN db_budgets : db_budgets[b].spent > 0


\* This step is an income / expense creation that reached its INSERT, one
\* of whose writes failed.
CreationWithFailure ==
    /\ last'.op = "add_transaction"
    /\ last'.failed # {}
    /\ next_id'.transaction = next_id.transaction + 1

\* C34: in an income / expense creation the balance and the budget are
\* written only after the INSERT succeeded: when the INSERT fails, no row,
\* no balance and no budget changes; when the INSERT succeeds and the write
\* of the balance or of the budget fails, the inserted row stays (nothing is
\* rolled back).
C34_CascadeOnlyAfterInsert ==
    [][CreationWithFailure =>
          /\ 1 \in last'.failed =>
                 UNCHANGED <<db_transactions, db_accounts, db_budgets, budgets>>
          /\ 1 \notin last'.failed =>
                 /\ next_id.transaction \in DOMAIN db_transactions'
                 /\ db_transactions'[next_id.transaction].amount = last'.amt
                 /\ db_transactions'[next_id.transaction].account_id = last'.acct
                 /\ \A t \in DOMAIN db_transactions :
                        /\ t \in DOMAIN db_transactions'
                        /\ db_transactions'[t] = db_transactions[t]
                 /\ 2 \in last'.failed => db_accounts' = db_accounts
                 /\ 3 \in last'.failed => db_budgets' = db_budgets]_vars

\* C34 witness: an expense of a budgeted category was inserted, the write of
\* the spent failed, and the row is there with the spent as it was.
C34_Witness ==
    /\ last.op = "add_transaction"
    /\ last.failed = {3}
    /\ last.txn \in DOMAIN db_transactions
    /\ Balance(last.acct) = last.bal - last.amt
    /\ Spent(last.cat) = last.spent

\* C34 witness of the failed INSERT: the creation before this state failed
\* at its INSERT while the category holds a budget.
C34_InsertFailureReached ==
    /\ last.op = "add_transaction"
    /\ ~last.ok
    /\ last.failed = {1}
    /\ HasBudget(last.cat)


\* C35: whenever an income / expense creation or the deletion of an income
\* reads the balance of its account from the AccountsManager cache for its
\* funds check, the cached balance is the stored balance, whatever creations,
\* transfers, updates and deletions ran before.
C35_CachedBalanceIsStoredBalance ==
    [][(Created("Income") \/ Created("Expense") \/ Deleted("Income")) =>
          /\ last'.acct \in DOMAIN accounts
          /\ accounts[last'.acct].initial_balance = Balance(last'.acct)]_vars


\* This step is the update or the deletion of the Transfer row last'.txn
\* that went through to its balance writes, on the accounts last'.acct
\* (taken as the source) and last'.other (taken as the destination).
TransferReworked ==
    /\ \/ last'.op = "update_transfer_funds"
       \/ last'.op = "delete_transaction" /\ last'.type = "Transfer"
    /\ last' # last
    /\ last'.txn \in DOMAIN db_transactions

\* The account debited and the account credited when the transfer of a row
\* was created, read off the row and the leg inserted with it.
CreatedWith(t) ==
    LET row == db_transactions[t]
        pair == db_transactions[row.g_pair]
    IN  IF row.notes.kind = "to"
        THEN [source_id |-> row.account_id, dest_id |-> pair.account_id]
        ELSE [source_id |-> pair.account_id, dest_id |-> row.account_id]

\* C36: the accounts whose balances a transfer update or deletion changes
\* are the two accounts that were debited and credited when the transfer was
\* created, also when several accounts have the name of the counterparty.
C36_TransferPartiesAsCreated ==
    [][(/\ TransferReworked
        /\ db_transactions[last'.txn].g_pair \in DOMAIN db_transactions) =>
          \A a \in DOMAIN db_accounts :
              BalanceIn(db_accounts', a) # Balance(a) =>
                  a \in {CreatedWith(last'.txn).source_id, CreatedWith(last'.txn).dest_id}]_vars


\* C37: the update of a transfer changes the two rows of that transfer only:
\* every other Transfer row, those between the same two accounts included,
\* keeps its amount, its date and its notes.
C37_TransferUpdateTouchesItsTwoRows ==
    [][(/\ last'.op = "update_transfer_funds"
        /\ last'.txn \in DOMAIN db_transactions) =>
          \A t \in DOMAIN db_transactions :
              t \notin {last'.txn, db_transactions[last'.txn].g_pair} =>
                  /\ t \in DOMAIN db_transactions'
                  /\ db_transactions'[t] = db_transactions[t]]_vars


\* The sum of the stored balances of all the accounts of a table.
TotalBalance(table) == SumOver(DOMAIN table, [a \in DOMAIN table |-> table[a].initial_balance])

\* C38: a transfer created, updated or deleted, whichever of its rows is
\* selected and whatever amount is entered, leaves the sum of the stored
\* balances of all the accounts as it was (every write succeeding).
C38_TransfersKeepTotalBalance ==
    [][TransferStep => TotalBalance(db_accounts') = TotalBalance(db_accounts)]_vars

\* C38 witness: a transfer has been deleted, balances are not what the
\* accounts were opened with, and the accounts of the store add up to what
\* they were opened with.
C38_Witness ==
    /\ last.op = "delete_transaction"
    /\ last.type = "Transfer"
    /\ \E a \in DOMAIN db_accounts : Balance(a) # opening[a]
    /\ TotalBalance(db_accounts) = SumOver(DOMAIN opening, opening)


\* C39: for an expense category and a set of expenses, the spent of the
\* budget is the same whether the budget was set before the expenses were
\* created or after them, whatever their dates.  Set after them, the budget
\* starts with the sum of the expenses of the current month (C31); so an
\* expense created under the budget has to move the spent by what it adds
\* to that sum: its amount when it is dated in the current month, nothing
\* when it is dated in another one.
C39_SpentIndependentOfOrder ==
    [][(Created("Expense") /\ last'.budget # 0) =>
          db_budgets'[last'.budget].spent - ExpensesOfMonth(db_transactions', last'.cat, "cur")
              = db_budgets[last'.budget].spent - ExpensesOfMonth(db_transactions, last'.cat, "cur")]_vars
====
